---- MODULE Spec2Model ----
(***************************************************************************)
(* PDF_LIB: PostScript parser, PDF generator, processor facade and the     *)
(* process-wide error handler, modelled as a state machine.                *)
(*                                                                         *)
(* Bytes are TLA+ strings: every chunk the C++ code streams with << is one *)
(* string, and a file is the sequence of chunks in the order written, so   *)
(* that a byte offset is the sum of the lengths of the chunks before it.   *)
(* A double is a fixed-point integer counted in 1/Unit of a point; a scale *)
(* factor is counted in 1/ScaleUnit.                                       *)
(***************************************************************************)
EXTENDS Integers, Sequences, FiniteSets, TLC

VARIABLES
    fs,                 \* the file system: path -> document, written PDF or NoFile
    initialized_,       \* PDFProcessor::Impl::initialized_, per processor
    options_,           \* PDFProcessor::Impl::options_, per processor
    progress_callback_, \* PDFProcessor::Impl::progress_callback_ is set, per processor
    components,         \* initialized_ of the device manager, interpreter, engine, resource manager
    parser,             \* PostScriptParser::Impl, per processor
    generator,          \* PDFGenerator::Impl, per processor
    error_handler,      \* ErrorHandler::Impl of the one GetInstance() object
    build,              \* what this build does where the C++ code has undefined behaviour
    thread,             \* "running", "blocked" (waits on a mutex forever) or "terminated"
    last,               \* the call made last: operation, processor, outcome
    progress,           \* the progress callback's calls during the last Process
    ncalls,             \* the number of calls made so far
    device              \* the members of one MSWinPrinterDevice

vars == <<fs, initialized_, options_, progress_callback_, components, parser,
          generator, error_handler, build, thread, last, progress, ncalls, device>>

----------------------------------------------------------------------------
(* Bounds of the model *)

MaxLines == 2       \* lines of the first document given to ParseContent
MaxWrites == 2      \* CreatePDF calls made directly on one generator
MaxCalls == 3       \* calls in one run

(* Fixed-point resolution *)
Unit == 1000
ScaleUnit == 1000000

----------------------------------------------------------------------------
(* Arithmetic on fixed-point doubles *)

Abs(a) == IF a < 0 THEN -a ELSE a

Min(a, b) == IF a < b THEN a ELSE b

Sign(a) == IF a < 0 THEN -1 ELSE 1

\* a / b as a scale factor (a, b > 0 in 1/Unit): long division, three decimal
\* digits at a time.
DivScale(a, b) ==
    LET q  == a \div b
        r0 == a % b
        f1 == (r0 * 1000) \div b
        r1 == (r0 * 1000) % b
        f2 == (r1 * 1000) \div b
    IN  q * ScaleUnit + f1 * 1000 + f2

\* v * s for a coordinate v (1/Unit) and a scale factor s (1/ScaleUnit),
\* rounded to the nearest 1/Unit; the product is formed in limbs of 1000.
MulScale(v, s) ==
    LET a  == Abs(v)
        a1 == a \div 1000
        a0 == a % 1000
        s1 == s \div 1000
        s0 == s % 1000
        t  == a1 * s0 + a0 * s1
        lo == ((t % 1000) * 1000 + a0 * s0 + 500000) \div 1000000
    IN  Sign(v) * (a1 * s1 + t \div 1000 + lo)

----------------------------------------------------------------------------
(* Formatting, as the iostream inserters do it *)

\* operator<<(int) / operator<<(size_t)
IntStr(n) == ToString(n)

\* std::setfill('0') << std::setw(w) << n
RECURSIVE ZeroPad(_, _)
ZeroPad(s, w) == IF Len(s) >= w THEN s ELSE ZeroPad("0" \o s, w)

\* std::fixed << std::setprecision(2) << v
Fixed2(v) ==
    LET h == (Abs(v) * 100 + Unit \div 2) \div Unit
    IN  (IF v < 0 THEN "-" ELSE "") \o IntStr(h \div 100) \o "."
            \o ZeroPad(IntStr(h % 100), 2)

\* std::fixed << std::setprecision(1) << level, level in tenths
Fixed1(tenths) == IntStr(tenths \div 10) \o "." \o IntStr(tenths % 10)

\* operator<<(double) with the default format (%g, six significant digits):
\* trailing zeros are dropped
General(v) ==
    LET m == Abs(v) % Unit
        frac == IF m = 0 THEN ""
                ELSE IF m % 100 = 0 THEN "." \o IntStr(m \div 100)
                ELSE IF m % 10 = 0 THEN "." \o ZeroPad(IntStr(m \div 10), 2)
                ELSE "." \o ZeroPad(IntStr(m), 3)
    IN  (IF v < 0 THEN "-" ELSE "") \o IntStr(Abs(v) \div Unit) \o frac

\* a std::string held as a sequence of characters, as one string
RECURSIVE Flatten(_)
Flatten(cs) == IF cs = <<>> THEN "" ELSE Head(cs) \o Flatten(Tail(cs))

\* the total number of bytes of a sequence of chunks
RECURSIVE Bytes(_)
Bytes(chunks) ==
    IF chunks = <<>> THEN 0
    ELSE IF Len(chunks) = 1 THEN Len(chunks[1])
    ELSE LET half == Len(chunks) \div 2
         IN  Bytes(SubSeq(chunks, 1, half)) + Bytes(SubSeq(chunks, half + 1, Len(chunks)))

----------------------------------------------------------------------------
(* PostScript input.  A document is a sequence of lines, a line is the      *)
(* sequence of its blank-separated words, a word is its characters.         *)

W_gsave == <<"g","s","a","v","e">>
W_grestore == <<"g","r","e","s","t","o","r","e">>
W_setlinewidth == <<"s","e","t","l","i","n","e","w","i","d","t","h">>
W_setrgbcolor == <<"s","e","t","r","g","b","c","o","l","o","r">>
W_moveto == <<"m","o","v","e","t","o">>
W_lineto == <<"l","i","n","e","t","o">>
W_curveto == <<"c","u","r","v","e","t","o">>
W_closepath == <<"c","l","o","s","e","p","a","t","h">>
W_newpath == <<"n","e","w","p","a","t","h">>
W_stroke == <<"s","t","r","o","k","e">>
W_fill == <<"f","i","l","l">>
W_show == <<"s","h","o","w">>
W_showpage == <<"s","h","o","w","p","a","g","e">>
W_BoundingBox == <<"%","%","B","o","u","n","d","i","n","g","B","o","x",":">>

DigitVal == [c \in {"0","1","2","3","4","5","6","7","8","9"} |->
                CASE c = "0" -> 0 [] c = "1" -> 1 [] c = "2" -> 2 [] c = "3" -> 3
                  [] c = "4" -> 4 [] c = "5" -> 5 [] c = "6" -> 6 [] c = "7" -> 7
                  [] c = "8" -> 8 [] c = "9" -> 9]

IsDigit(c) == c \in DOMAIN DigitVal

\* the length of the run of digits of cs that starts at position i
RECURSIVE DigitRun(_, _)
DigitRun(cs, i) ==
    IF i <= Len(cs) /\ IsDigit(cs[i]) THEN 1 + DigitRun(cs, i + 1) ELSE 0

\* the number written by the n digits of cs that start at position i
RECURSIVE DigitsValue(_, _, _)
DigitsValue(cs, i, n) ==
    IF n = 0 THEN 0 ELSE DigitsValue(cs, i, n - 1) * 10 + DigitVal[cs[i + n - 1]]

\* std::stod: an optional sign, digits, an optional fraction; the longest
\* prefix that is a number is converted and the rest ignored.  ok is FALSE
\* where stod throws std::invalid_argument.  s is the length of the sign, n of
\* the integer digits, m of the fraction digits (three of them are kept).
FractionValue(cs, i, k) ==
    DigitsValue(cs, i, k) * (CASE k = 0 -> 0 [] k = 1 -> 100 [] k = 2 -> 10 [] OTHER -> 1)

FractionRun(cs, i) == IF i <= Len(cs) /\ cs[i] = "." THEN DigitRun(cs, i + 1) ELSE 0

StodValue(cs, s, n, m) ==
    [ok |-> n + m > 0,
     v  |-> (IF s = 1 /\ cs[1] = "-" THEN -1 ELSE 1)
            * (DigitsValue(cs, s + 1, n) * Unit + FractionValue(cs, s + n + 2, Min(m, 3)))]

StodDigits(cs, s, n) == StodValue(cs, s, n, FractionRun(cs, s + n + 1))

StodSigned(cs, s) == StodDigits(cs, s, DigitRun(cs, s + 1))

Stod(cs) == StodSigned(cs, IF cs # <<>> /\ cs[1] \in {"-", "+"} THEN 1 ELSE 0)

IsNumeric(str) == str # <<>> /\ Stod(str).ok

\* Tokenize: a word that opens a parenthesis and does not close it takes the
\* following words, joined by one blank, up to the first that ends in ")".
RECURSIVE Absorb(_, _)
Absorb(token, rest) ==
    IF rest = <<>> THEN <<token, rest>>
    ELSE LET t == token \o <<" ">> \o Head(rest)
         IN  IF Head(rest)[Len(Head(rest))] = ")" THEN <<t, Tail(rest)>>
             ELSE Absorb(t, Tail(rest))

RECURSIVE Tokenize(_)
Tokenize(line) ==
    IF line = <<>> THEN <<>>
    ELSE LET token == Head(line)
             a == IF token[1] = "(" /\ token[Len(token)] # ")"
                  THEN Absorb(token, Tail(line))
                  ELSE <<token, Tail(line)>>
         IN  <<a[1]>> \o Tokenize(a[2])

----------------------------------------------------------------------------
(* PostScriptParser::Impl *)

\* GraphicsState{} (postscript_parser.h)
DefaultGraphicsState ==
    [current_x |-> 0, current_y |-> 0, line_width |-> 1 * Unit,
     color_rgb |-> <<0, 0, 0>>, font_name |-> "Helvetica", font_size |-> 12 * Unit]

\* Page{} : A4 by default
DefaultPage ==
    [width |-> 595276, height |-> 841890, paths |-> <<>>, text_elements |-> <<>>]

\* the parser as constructed
NewParser ==
    [pages_ |-> <<>>,
     bbox |-> [x1 |-> 0, y1 |-> 0, x2 |-> 595276, y2 |-> 841890],
     transform |-> [scale |-> ScaleUnit, offset_x |-> 0, offset_y |-> 0,
                    pdf_height |-> 842 * Unit],
     current_state_ |-> DefaultGraphicsState,
     state_stack_ |-> <<>>,
     current_path_ |-> <<>>,
     warnings |-> <<>>,      \* the tokens ParseLine has logged a WARNING about
     crashed |-> FALSE,      \* the process died in the parser
     shown |-> FALSE]        \* the last ParseContent wrote into an empty color_rgb

AllDigits(w) == w # <<>> /\ DigitRun(w, 1) = Len(w)

\* ParseBoundingBox: the regex wants four runs of digits after the tag; of the
\* fourth word the leading digits are taken.  pages_ is empty when the DSC
\* comments are read, so no page dimension is touched.
ParseBoundingBox(P, line) ==
    IF /\ Len(line) >= 5
       /\ AllDigits(line[2]) /\ AllDigits(line[3]) /\ AllDigits(line[4])
       /\ DigitRun(line[5], 1) > 0
    THEN LET b == [x1 |-> DigitsValue(line[2], 1, Len(line[2])) * Unit,
                   y1 |-> DigitsValue(line[3], 1, Len(line[3])) * Unit,
                   x2 |-> DigitsValue(line[4], 1, Len(line[4])) * Unit,
                   y2 |-> DigitsValue(line[5], 1, DigitRun(line[5], 1)) * Unit]
         IN  [P EXCEPT !.bbox = b,
                       !.pages_ = IF P.pages_ = <<>> THEN P.pages_
                                  ELSE [P.pages_ EXCEPT ![1].width = b.x2 - b.x1,
                                                        ![1].height = b.y2 - b.y1]]
    ELSE P

IsDSC(line) == line # <<>> /\ Len(line[1]) >= 2 /\ line[1][1] = "%" /\ line[1][2] = "%"

RECURSIVE ParseDSCComments(_, _)
ParseDSCComments(P, lines) ==
    IF lines = <<>> THEN P
    ELSE LET line == Head(lines)
             P1 == IF IsDSC(line) /\ line[1] = W_BoundingBox
                   THEN ParseBoundingBox(P, line) ELSE P
         IN  ParseDSCComments(P1, Tail(lines))

SetupCoordinateTransform(P) ==
    LET ps_width == P.bbox.x2 - P.bbox.x1
        ps_height == P.bbox.y2 - P.bbox.y1
        pdf_width == 595 * Unit
        pdf_height == 842 * Unit
        scale_x == DivScale(pdf_width, ps_width)
        scale_y == DivScale(pdf_height, ps_height)
        scale == Min(scale_x, scale_y)
        scaled_width == MulScale(ps_width, scale)
        scaled_height == MulScale(ps_height, scale)
        offset_x == (pdf_width - scaled_width) \div 2
        offset_y == (pdf_height - scaled_height) \div 2
    IN  [P EXCEPT !.transform = [scale |-> scale, offset_x |-> offset_x,
                                 offset_y |-> offset_y, pdf_height |-> pdf_height]]

\* TransformCoordinates(x, y), as the pair of results
TransformCoordinates(P, x, y) ==
    <<MulScale(x, P.transform.scale) + P.transform.offset_x,
      P.transform.pdf_height - (MulScale(y, P.transform.scale) + P.transform.offset_y)>>

\* the operands of tokens[j] (j counts from 1, the code's i from 0): for each
\* of the at most six tokens before it, the nearest first, what IsNumeric and
\* std::stod make of it
Operands(tokens, j) ==
    [k \in 1..Min(6, j - 1) |->
        [numeric |-> IsNumeric(tokens[j - k]), value |-> Stod(tokens[j - k]).v]]

\* i >= n && IsNumeric(tokens[i-n]) && ... && IsNumeric(tokens[i-1])
Numeric(ops, n) == Len(ops) >= n /\ \A k \in 1..n : ops[k].numeric

\* moveto / lineto with the transformed point xy
PathTo(P, type, xy) ==
    [P EXCEPT !.current_state_.current_x = xy[1],
              !.current_state_.current_y = xy[2],
              !.current_path_ = Append(@, [type |-> type, points |-> xy])]

\* curveto with the transformed points
CurveTo(P, p1, p2, p3) ==
    [P EXCEPT !.current_path_ = Append(@, [type |-> "CURVE_TO",
                                           points |-> p1 \o p2 \o p3]),
              !.current_state_.current_x = p3[1],
              !.current_state_.current_y = p3[2]]

\* stroke / fill: the accumulated path goes to the last page
CommitPath(P) == [P EXCEPT !.pages_[Len(P.pages_)].paths = @ \o P.current_path_]

\* show with the string token text_token, xy the current point transformed.
\* text_element.color_rgb is an empty vector when its elements 0..2 are
\* assigned: ub is what the build does there.
Show(P, text_token, xy, ub) ==
    IF text_token[1] = "(" /\ text_token[Len(text_token)] = ")"
    THEN IF ub = "crash" THEN [P EXCEPT !.crashed = TRUE, !.shown = TRUE]
         ELSE IF P.pages_ # <<>>
         THEN [P EXCEPT !.shown = TRUE,
                        !.pages_[Len(P.pages_)].text_elements =
                  Append(@, [text |-> SubSeq(text_token, 2, Len(text_token) - 1),
                             x |-> xy[1], y |-> xy[2],
                             font_name |-> P.current_state_.font_name,
                             font_size |-> P.current_state_.font_size,
                             color_rgb |-> P.current_state_.color_rgb])]
         ELSE [P EXCEPT !.shown = TRUE]
    ELSE P

\* one round of ParseLine's loop over the tokens: token with its operands ops
\* and the token before it (<<>> for the first token of the line)
ExecuteToken(P, token, ops, previous, ub) ==
    IF token = W_gsave \/ token = <<"q">> THEN
        [P EXCEPT !.state_stack_ = Append(@, P.current_state_)]
    ELSE IF token = W_grestore \/ token = <<"Q">> THEN
        IF P.state_stack_ # <<>>
        THEN [P EXCEPT !.current_state_ = P.state_stack_[Len(P.state_stack_)],
                       !.state_stack_ = SubSeq(@, 1, Len(@) - 1)]
        ELSE P
    ELSE IF (token = W_setlinewidth \/ token = <<"w">>) /\ Numeric(ops, 1) THEN
        [P EXCEPT !.current_state_.line_width = ops[1].value]
    ELSE IF (token = W_setrgbcolor \/ token = <<"r","g">>) /\ Numeric(ops, 3) THEN
        [P EXCEPT !.current_state_.color_rgb =
                      <<ops[3].value, ops[2].value, ops[1].value>>]
    ELSE IF (token = W_moveto \/ token = <<"m">>) /\ Numeric(ops, 2) THEN
        PathTo(P, "MOVE_TO", TransformCoordinates(P, ops[2].value, ops[1].value))
    ELSE IF (token = W_lineto \/ token = <<"l">>) /\ Numeric(ops, 2) THEN
        PathTo(P, "LINE_TO", TransformCoordinates(P, ops[2].value, ops[1].value))
    ELSE IF (token = W_curveto \/ token = <<"c">>) /\ Numeric(ops, 6) THEN
        CurveTo(P, TransformCoordinates(P, ops[6].value, ops[5].value),
                   TransformCoordinates(P, ops[4].value, ops[3].value),
                   TransformCoordinates(P, ops[2].value, ops[1].value))
    ELSE IF token = W_closepath \/ token = <<"h">> THEN
        [P EXCEPT !.current_path_ = Append(@, [type |-> "CLOSE_PATH", points |-> <<>>])]
    ELSE IF token = W_stroke \/ token = <<"s">> THEN
        IF P.current_path_ # <<>> /\ P.pages_ # <<>>
        THEN [CommitPath(P) EXCEPT !.current_path_ = <<>>]
        ELSE P
    ELSE IF token = W_fill \/ token = <<"f">> \/ token = <<"F">> THEN
        [(IF P.pages_ # <<>> /\ P.current_path_ # <<>> THEN CommitPath(P) ELSE P)
            EXCEPT !.current_path_ = <<>>]
    ELSE IF (token = W_show \/ token = <<"T","j">>) /\ previous # <<>> THEN
        Show(P, previous,
             TransformCoordinates(P, P.current_state_.current_x,
                                  P.current_state_.current_y), ub)
    ELSE IF token = W_showpage THEN
        [P EXCEPT !.pages_ = Append(@, DefaultPage)]
    ELSE P

\* the branch taken for the token throws a std::exception.  The branches call
\* std::stod on words IsNumeric has accepted, push_back and emplace_back; a
\* token that matches no branch runs no statement at all.  No word of a
\* document is beyond the range of a double, so nothing throws.
Throws(token, ops) == FALSE

\* the try block of ParseLine's loop and its catch, which logs
\* "Error parsing token '<token>'" with ErrorSeverity::WARNING
ParseToken(P, tokens, j, ub) ==
    IF Throws(tokens[j], Operands(tokens, j))
    THEN [P EXCEPT !.warnings = Append(@, tokens[j])]
    ELSE ExecuteToken(P, tokens[j], Operands(tokens, j),
                      IF j > 1 THEN tokens[j - 1] ELSE <<>>, ub)

RECURSIVE ParseTokens(_, _, _, _)
ParseTokens(P, tokens, j, ub) ==
    IF j > Len(tokens) \/ P.crashed THEN P
    ELSE ParseTokens(ParseToken(P, tokens, j, ub), tokens, j + 1, ub)

\* ParseLine: empty lines and comments are skipped
ParseLine(P, line, ub) ==
    IF line = <<>> \/ line[1][1] = "%" THEN P
    ELSE ParseTokens(P, Tokenize(line), 1, ub)

RECURSIVE ParseLines(_, _, _)
ParseLines(P, lines, ub) ==
    IF lines = <<>> \/ P.crashed THEN P
    ELSE ParseLines(ParseLine(P, Head(lines), ub), Tail(lines), ub)

\* pages_.emplace_back() before the lines are parsed
FirstPage(P) == [P EXCEPT !.pages_ = Append(@, DefaultPage)]

\* "ensure we have at least one page"
EnsurePage(P) == IF P.pages_ = <<>> THEN [P EXCEPT !.pages_ = <<DefaultPage>>] ELSE P

\* ParseContent: the parser after the call (it returns true unless the
\* process died in it)
ParseContent(P, content, ub) ==
    EnsurePage(
        ParseLines(
            FirstPage(SetupCoordinateTransform(
                ParseDSCComments([P EXCEPT !.pages_ = <<>>, !.shown = FALSE,
                                              !.warnings = <<>>], content))),
            content, ub))

GetPageCount(P) == Len(P.pages_)

----------------------------------------------------------------------------
(* PDFGenerator::Impl.  An object's content is the sequence of the chunks    *)
(* streamed into it.                                                        *)

\* the generator as constructed
NewGenerator ==
    [pages_ |-> <<>>, objects_ |-> <<>>, next_object_id_ |-> 1,
     compatibility_level |-> 17, writes |-> 0]

\* PDFGenerator::Impl::Initialize
GeneratorInitialize(G, options) ==
    [G EXCEPT !.compatibility_level = options.compatibility_level,
              !.pages_ = <<>>, !.objects_ = <<>>, !.next_object_id_ = 1]

\* PDFGenerator::Clear
GeneratorClear(G) ==
    [G EXCEPT !.pages_ = <<>>, !.objects_ = <<>>, !.next_object_id_ = 1]

\* the binary comment of the header: '%', four bytes above 0x7F (written here
\* as four letters), newline
BinaryComment == "%bina\n"

WritePDFHeader(G) ==
    <<"%PDF-" \o Fixed1(G.compatibility_level) \o "\n", BinaryComment>>

CreateCatalogObject(G) ==
    LET id == G.next_object_id_
        next == id + 1
        content == <<"<<\n", "/Type /Catalog\n",
                     "/Pages " \o IntStr(next) \o " 0 R\n", ">>\n">>
    IN  [G EXCEPT !.next_object_id_ = next,
                  !.objects_ = Append(@, [id |-> id, offset |-> 0, content |-> content])]

CreatePagesObject(G) ==
    LET id == G.next_object_id_
        next == id + 1
        kids == [i \in 1..Len(G.pages_) |-> IntStr(next + (i - 1)) \o " 0 R "]
        content == <<"<<\n", "/Type /Pages\n",
                     "/Count " \o IntStr(Len(G.pages_)) \o "\n", "/Kids [">>
                   \o kids \o <<"]\n", ">>\n">>
    IN  [G EXCEPT !.next_object_id_ = next,
                  !.objects_ = Append(@, [id |-> id, offset |-> 0, content |-> content])]

EscapeChar(c) == IF c = "(" \/ c = ")" \/ c = "\\" THEN <<"\\", c>> ELSE <<c>>

RECURSIVE EscapeString(_)
EscapeString(str) ==
    IF str = <<>> THEN <<>> ELSE EscapeChar(Head(str)) \o EscapeString(Tail(str))

\* the loop over page.paths of GeneratePageContent: the chunks written and
\* has_open_path after the last element
RECURSIVE RenderPaths(_, _)
RenderPaths(paths, has_open_path) ==
    IF paths = <<>> THEN IF has_open_path THEN <<"S\n">> ELSE <<>>
    ELSE LET path == Head(paths)
             pt(k) == Fixed2(path.points[k])
         IN  CASE path.type = "MOVE_TO" ->
                    IF Len(path.points) >= 2
                    THEN (IF has_open_path THEN <<"S\n">> ELSE <<>>)
                         \o <<pt(1) \o " " \o pt(2) \o " m\n">>
                         \o RenderPaths(Tail(paths), TRUE)
                    ELSE RenderPaths(Tail(paths), has_open_path)
               [] path.type = "LINE_TO" ->
                    (IF Len(path.points) >= 2
                     THEN <<pt(1) \o " " \o pt(2) \o " l\n">> ELSE <<>>)
                    \o RenderPaths(Tail(paths), has_open_path)
               [] path.type = "CURVE_TO" ->
                    (IF Len(path.points) >= 6
                     THEN <<pt(1) \o " " \o pt(2) \o " " \o pt(3) \o " " \o pt(4)
                            \o " " \o pt(5) \o " " \o pt(6) \o " c\n">>
                     ELSE <<>>)
                    \o RenderPaths(Tail(paths), has_open_path)
               [] path.type = "CLOSE_PATH" ->
                    <<"h\n">> \o RenderPaths(Tail(paths), has_open_path)

RECURSIVE RenderText(_)
RenderText(texts) ==
    IF texts = <<>> THEN <<>>
    ELSE LET text == Head(texts)
         IN  << Fixed2(text.color_rgb[1]) \o " " \o Fixed2(text.color_rgb[2]) \o " "
                    \o Fixed2(text.color_rgb[3]) \o " rg\n",
                "1 0 0 1 " \o Fixed2(text.x) \o " " \o Fixed2(text.y) \o " Tm\n",
                "(" \o Flatten(EscapeString(text.text)) \o ") Tj\n" >>
             \o RenderText(Tail(texts))

\* GeneratePageContent: the chunks streamed into the page's content stream
GeneratePageContent(page) ==
    <<"q\n", "1 0 0 1 0 0 cm\n", "0 0 0 RG\n", "0 0 0 rg\n", "1 w\n", "1 J\n", "1 j\n",
      "% Test rectangle\n", "100 100 m\n", "150 100 l\n", "150 150 l\n", "100 150 l\n",
      "h\n", "S\n">>
    \o RenderPaths(page.paths, FALSE)
    \o (IF page.text_elements # <<>>
        THEN <<"BT\n", "/F1 12 Tf\n">> \o RenderText(page.text_elements) \o <<"ET\n">>
        ELSE <<>>)
    \o <<"Q\n">>

\* a length that counts the newline written before endstream as well
StreamLength_WithNewline(page_stream) == Bytes(page_stream) + 1

\* the length() of the page stream that CreatePageObjects writes after /Length
StreamLength(page_stream) == Bytes(page_stream)

\* content_obj of CreatePageObjects
ContentObject(content_id, page_stream) ==
    [id |-> content_id, offset |-> 0,
     content |-> <<"<<\n", "/Length " \o IntStr(StreamLength(page_stream)) \o "\n",
                   ">>\n", "stream\n">>
                 \o page_stream \o <<"\nendstream\n">>]

\* page_obj of CreatePageObjects
PageObject(page, page_id, parent_id, font_obj_id) ==
    [id |-> page_id, offset |-> 0,
     content |-> <<"<<\n", "/Type /Page\n",
                   "/Parent " \o IntStr(parent_id) \o " 0 R\n",
                   "/MediaBox [0 0 " \o General(page.width) \o " "
                       \o General(page.height) \o "]\n",
                   "/Contents " \o IntStr(page_id + 1) \o " 0 R\n",
                   "/Resources <<\n",
                   "  /Font << /F1 " \o IntStr(font_obj_id) \o " 0 R >>\n",
                   ">>\n", ">>\n">>]

\* the loop of CreatePageObjects from page page_idx on
RECURSIVE CreatePageObjectsFrom(_, _, _)
CreatePageObjectsFrom(G, page_idx, font_obj_id) ==
    IF page_idx > Len(G.pages_) THEN G
    ELSE CreatePageObjectsFrom(
             [G EXCEPT !.next_object_id_ = @ + 2,
                       !.objects_ = @ \o
                           <<PageObject(G.pages_[page_idx], G.next_object_id_,
                                        G.objects_[2].id, font_obj_id),
                             ContentObject(G.next_object_id_ + 1,
                                           GeneratePageContent(G.pages_[page_idx]))>>],
             page_idx + 1, font_obj_id)

CreatePageObjects(G) ==
    CreatePageObjectsFrom(G, 1, G.next_object_id_ + Len(G.pages_) * 2)

CreateFontObject(G) ==
    LET id == G.next_object_id_
    IN  [G EXCEPT !.next_object_id_ = id + 1,
                  !.objects_ = Append(@, [id |-> id, offset |-> 0,
                      content |-> <<"<<\n", "/Type /Font\n", "/Subtype /Type1\n",
                                    "/BaseFont /Helvetica\n", ">>\n">>])]

\* what the loop of WritePDF over objects_ writes for one object
WrittenObject(obj) == <<IntStr(obj.id) \o " 0 obj\n">> \o obj.content \o <<"endobj\n\n">>

\* the loop of WritePDF over objects_, from object k on with the stream at
\* tellp: each object's offset is tellp() before its first byte
RECURSIVE SetOffsets(_, _, _)
SetOffsets(objects, k, tellp) ==
    IF k > Len(objects) THEN objects
    ELSE SetOffsets([objects EXCEPT ![k].offset = tellp], k + 1,
                    tellp + Bytes(WrittenObject(objects[k])))

\* the chunks that loop writes
RECURSIVE WriteObjects(_, _)
WriteObjects(objects, k) ==
    IF k > Len(objects) THEN <<>>
    ELSE WrittenObject(objects[k]) \o WriteObjects(objects, k + 1)

WriteCrossReferenceTable(offsets) ==
    <<"xref\n", "0 " \o IntStr(Len(offsets) + 1) \o "\n", "0000000000 65535 f \n">>
    \o [k \in 1..Len(offsets) |-> ZeroPad(IntStr(offsets[k]), 10) \o " 00000 n \n"]

WriteTrailer(G, xref_offset) ==
    <<"trailer\n", "<<\n", "/Size " \o IntStr(Len(G.objects_) + 1) \o "\n",
      "/Root " \o IntStr(G.objects_[1].id) \o " 0 R\n", ">>\n", "startxref\n",
      IntStr(xref_offset) \o "\n", "%%EOF\n">>

\* the four Create calls of WritePDF
CreateObjects(G) ==
    CreateFontObject(CreatePageObjects(CreatePagesObject(CreateCatalogObject(G))))

\* the end of WritePDF: the cross-reference table and the trailer after the
\* body, xref_offset being tellp() after the body
FinishPDF(G, body) ==
    [generator |-> [G EXCEPT !.writes = @ + 1],
     file |-> body
              \o WriteCrossReferenceTable([k \in 1..Len(G.objects_) |->
                                              G.objects_[k].offset])
              \o WriteTrailer(G, Bytes(body))]

\* offsets taken as if the objects were written at the start of the file
WriteBody_BeforeHeader(G, header) ==
    FinishPDF([G EXCEPT !.objects_ = SetOffsets(@, 1, 0)],
              header \o WriteObjects(G.objects_, 1))

\* the header and the objects written, G holding the objects created
WriteBody(G, header) ==
    FinishPDF([G EXCEPT !.objects_ = SetOffsets(@, 1, Bytes(header))],
              header \o WriteObjects(G.objects_, 1))

\* WritePDF once the file is open: the generator afterwards and the bytes of
\* the file
WritePDFContent(G) == WriteBody(CreateObjects(G), WritePDFHeader(G))

\* the conversion loop of CreatePDF: one PDFPageData per parsed page
PagesFromParser(P) ==
    [i \in 1..GetPageCount(P) |->
        [width |-> P.pages_[i].width, height |-> P.pages_[i].height,
         paths |-> P.pages_[i].paths, text_elements |-> P.pages_[i].text_elements]]

----------------------------------------------------------------------------
(* ErrorHandler: one object for the whole process (GetInstance)             *)

\* what a build can do when a thread locks a std::mutex it already owns
RelockOutcomes == {"proceed", "deadlock", "throw"}

\* what a build can do when show writes into the empty color_rgb vector
EmptyVectorOutcomes == {"stored", "crash"}

\* the outcomes still open for a behaviour of the build: all of them until
\* the program has run into it, from then on the one that was seen
Open(seen, outcomes) == IF seen = "unobserved" THEN outcomes ELSE {seen}

ErrorInfo(code, message) == [code |-> code, message |-> message]

\* SetError locks mutex_, stores the error and calls Log, which locks mutex_
\* again when logging is enabled.  calls is the chain of SetError calls the
\* code makes when each of them returns; thrown is the chain it makes when
\* each of them throws std::system_error out of Log (the catch handlers on
\* the way report again); rl is what the build does at the second lock.  The
\* result is the stored error and how the thread leaves the chain.
SetErrors(E, rl, calls, thrown) ==
    LET mode == IF E.logging_enabled_ THEN rl ELSE "proceed"
        chain == IF mode = "throw" THEN thrown ELSE calls
        n == IF mode = "deadlock" THEN 1 ELSE Len(chain)
    IN  [error |-> [E EXCEPT !.code = chain[n].code, !.message = chain[n].message],
         status |-> CASE mode = "proceed" -> "returned"
                      [] mode = "deadlock" -> "blocked"
                      [] mode = "throw" -> "thrown"]

\* ErrorHandler::GetError
GetError(E) == ErrorInfo(E.code, E.message)

\* ErrorHandler::GetErrorString
GetErrorString(E) ==
    IF E.code = 0 THEN "No error"
    ELSE "Error " \o IntStr(E.code) \o ": " \o E.message

\* PDFProcessor::GetLastError of processor p: GetInstance().GetError()
GetLastError(p) == GetError(error_handler)

\* PDFProcessor::GetLastErrorString of processor p
GetLastErrorString(p) == GetErrorString(error_handler)

----------------------------------------------------------------------------
(* ProcessingOptions and the command line *)

\* ProcessingOptions{}: the fields the processor reads
DefaultOptions ==
    [device_name |-> "", output_file |-> "", input_files |-> <<>>,
     postscript_commands |-> <<>>, compatibility_level |-> 17]

\* ToLower on the values the model passes
ToLower(str) == IF str = "PDFWRITE" THEN "pdfwrite" ELSE str

\* FindParameterDefinition: the parameter an option name (the text between
\* '-' and '=') denotes, "" when there is none
FindParameterDefinition(name) ==
    CASE name \in {"sDEVICE", "DEVICE"} -> "DEVICE"
      [] name \in {"sOutputFile", "OUTPUTFILE"} -> "OUTPUTFILE"
      [] name \in {"dBATCH", "BATCH"} -> "BATCH"
      [] name \in {"dNOPAUSE", "NOPAUSE"} -> "NOPAUSE"
      [] OTHER -> ""

\* ParseArgument with ParseParameterValue: params after the argument, and the
\* SetError call it makes, if any
ParseArgument(arg, params) ==
    LET name == FindParameterDefinition(arg.name)
    IN  IF name = "" THEN [params |-> params, errors |-> <<>>]
        ELSE IF name = "DEVICE" /\ arg.value # ""
                /\ ToLower(arg.value) \notin {"pdfwrite", "mswinpr2"}
        THEN [params |-> params,
              errors |-> <<ErrorInfo(-1, "Invalid value for DEVICE: " \o arg.value)>>]
        ELSE [params |-> [params EXCEPT ![name] =
                  [is_set |-> TRUE,
                   value |-> IF name \in {"BATCH", "NOPAUSE"}
                             THEN (IF arg.value = "" THEN "true" ELSE arg.value)
                             ELSE IF name = "DEVICE" THEN ToLower(arg.value)
                             ELSE arg.value]],
              errors |-> <<>>]

NoParams ==
    [n \in {"DEVICE", "OUTPUTFILE", "BATCH", "NOPAUSE"} |-> [is_set |-> FALSE, value |-> ""]]

\* ConvertToOptions: options is reset to the defaults before the parameters
\* are applied
ConvertToOptions(params, options) ==
    LET o0 == DefaultOptions
        o1 == IF params["DEVICE"].is_set
              THEN [o0 EXCEPT !.device_name = params["DEVICE"].value] ELSE o0
        o2 == IF params["OUTPUTFILE"].is_set
              THEN [o1 EXCEPT !.output_file = params["OUTPUTFILE"].value] ELSE o1
    IN  o2

\* the loop of ParseArguments from argument i on.  An argument is a record:
\* kind "c" (-c), "f" (-f), "file" (does not start with '-') or "param"
\* (-name or -name=value).  stop says that a SetError call does not return
\* (the thread blocks in it or an exception leaves ParseArguments): the loop
\* then ends at the first error with options as they are at that point.
RECURSIVE ParseArgumentsFrom(_, _, _, _, _, _)
ParseArgumentsFrom(arguments, i, options, params, errors, stop) ==
    IF stop /\ errors # <<>>
    THEN [options |-> options, errors |-> errors]
    ELSE IF i > Len(arguments)
    THEN [options |-> ConvertToOptions(params, options), errors |-> errors]
    ELSE LET arg == arguments[i]
         IN  IF arg.kind = "c" /\ i + 1 <= Len(arguments)
             THEN ParseArgumentsFrom(arguments, i + 2,
                      [options EXCEPT !.postscript_commands =
                                          Append(@, arguments[i + 1].text)],
                      params, errors, stop)
             ELSE IF arg.kind = "f"
             THEN ParseArgumentsFrom(arguments, i + 1, options, params, errors, stop)
             ELSE IF arg.kind = "file"
             THEN ParseArgumentsFrom(arguments, i + 1,
                      [options EXCEPT !.input_files = Append(@, arg.text)],
                      params, errors, stop)
             ELSE LET r == ParseArgument(arg, params)
                  IN  ParseArgumentsFrom(arguments, i + 1, options, r.params,
                                         errors \o r.errors, stop)

\* CommandParser::ParseArguments (it returns true: ConvertToOptions does)
ParseArguments(arguments, options, stop) ==
    ParseArgumentsFrom(arguments, 1, options, NoParams, <<>>, stop)

\* CommandParser::ValidateOptions: the SetError calls it makes; none when the
\* options are valid
ValidateOptions(options) ==
    IF options.input_files = <<>> /\ options.device_name # "mswinpr2"
    THEN <<ErrorInfo(-1, "No input files specified")>>
    ELSE IF options.output_file = "" /\ options.device_name # "mswinpr2"
    THEN <<ErrorInfo(-1, "No output file specified")>>
    ELSE <<>>

----------------------------------------------------------------------------
(* The file system *)

NoFile == [kind |-> "none", content |-> <<>>]
PSFile(document) == [kind |-> "ps", content |-> document]
PDFFile(chunks) == [kind |-> "pdf", content |-> chunks]

\* the paths of the model; missing.ps never exists, nodir/out.pdf lies in a
\* directory that does not exist
InputPaths == {"a.ps", "b.eps", "missing.ps", "c.pdf"}
OutputPaths == {"out.pdf", "nodir/out.pdf"}
Paths == InputPaths \cup OutputPaths

\* std::ofstream(filepath) opens
Writable(filepath) == filepath = "out.pdf"

\* input_file.substr(input_file.find_last_of('.') + 1), in lower case
Extension(input_file) ==
    CASE input_file \in {"a.ps", "missing.ps"} -> "ps"
      [] input_file = "b.eps" -> "eps"
      [] input_file \in {"c.pdf", "out.pdf", "nodir/out.pdf"} -> "pdf"
      [] OTHER -> input_file

----------------------------------------------------------------------------
(* PDFGenerator::Impl::CreatePDF and WritePDF *)

\* file << pdf_content.str()
StoreFile(w, filepath, files) ==
    [ok |-> TRUE, generator |-> w.generator,
     fs |-> [files EXCEPT ![filepath] = PDFFile(w.file)]]

\* WritePDF: when the file cannot be opened nothing is written and the
\* generator keeps its objects
WritePDF(G, filepath, files) ==
    IF ~Writable(filepath)
    THEN [ok |-> FALSE, generator |-> G, fs |-> files]
    ELSE StoreFile(WritePDFContent(G), filepath, files)

CreatePDF(G, P, output_file, files) ==
    WritePDF([G EXCEPT !.pages_ = PagesFromParser(P)], output_file, files)

----------------------------------------------------------------------------
(* PDFProcessor::Impl *)

NoComponents ==
    [device_manager |-> FALSE, interpreter |-> FALSE, engine |-> FALSE,
     resource_manager |-> FALSE]

AllComponents ==
    [device_manager |-> TRUE, interpreter |-> TRUE, engine |-> TRUE,
     resource_manager |-> TRUE]

\* ProcessInputFiles works on S: the parser, the generator and the files as
\* the loop has changed them, the progress calls made, S.calls and S.thrown
\* the SetError chains of the failure that stopped it (see SetErrors),
\* S.crashed the process having died, S.shown a show having written into an
\* empty color_rgb.

\* the progress callback before file k
ReportProgress(p, S, k) ==
    IF progress_callback_[p]
    THEN [S EXCEPT !.progress = Append(@, <<k, Len(options_[p].input_files)>>)]
    ELSE S

\* ParseFile could not open input_file
ParseFailed(S, input_file) ==
    [S EXCEPT !.calls =
                  <<ErrorInfo(-1, "Cannot open PostScript file: " \o input_file),
                    ErrorInfo(-4, "Failed to parse PostScript file: " \o input_file)>>,
              !.thrown =
                  <<ErrorInfo(-1, "Cannot open PostScript file: " \o input_file),
                    ErrorInfo(-8, "Exception during processing: system_error")>>]

\* CreatePDF has returned c
Created(p, S, input_file, c) ==
    IF c.ok THEN [S EXCEPT !.generator = c.generator, !.fs = c.fs]
    ELSE [S EXCEPT !.generator = c.generator, !.fs = c.fs,
                   !.calls =
                       <<ErrorInfo(-4, "Cannot create PDF file: "
                                           \o options_[p].output_file),
                         ErrorInfo(-5, "Failed to generate PDF from: " \o input_file)>>,
                   !.thrown =
                       <<ErrorInfo(-4, "Cannot create PDF file: "
                                           \o options_[p].output_file),
                         ErrorInfo(-5, "Error writing PDF file: system_error"),
                         ErrorInfo(-3, "PDF creation error: system_error"),
                         ErrorInfo(-8, "Exception during processing: system_error")>>]

\* ParseFile has left the parser as P
Parsed(p, S, input_file, P) ==
    IF P.crashed THEN [S EXCEPT !.parser = P, !.crashed = TRUE, !.shown = TRUE]
    ELSE Created(p, [S EXCEPT !.parser = P, !.shown = @ \/ P.shown], input_file,
                 CreatePDF(S.generator, P, options_[p].output_file, S.fs))

\* one round of the loop of ProcessInputFiles
ProcessInputFile(p, S, input_file, ub) ==
    IF Extension(input_file) \in {"ps", "eps"}
    THEN IF S.fs[input_file].kind # "ps" THEN ParseFailed(S, input_file)
         ELSE Parsed(p, S, input_file,
                     ParseContent(S.parser, S.fs[input_file].content, ub))
    ELSE \* PDFEngine::LoadFile: the engine is initialized whenever the
         \* processor is; HasTransformations() is false
         S

\* the loop of ProcessInputFiles from file k on
RECURSIVE ProcessInputFilesFrom(_, _, _, _)
ProcessInputFilesFrom(p, S, k, ub) ==
    IF k > Len(options_[p].input_files) \/ S.calls # <<>> \/ S.crashed THEN S
    ELSE ProcessInputFilesFrom(
             p, ProcessInputFile(p, ReportProgress(p, S, k),
                                 options_[p].input_files[k], ub),
             k + 1, ub)

\* how the calling thread goes on after a call that ended with status
ThreadAfter(status) ==
    CASE status = "blocked" -> "blocked"
      [] status = "crashed" -> "terminated"
      [] OTHER -> "running"

Call(op, p, status, ret, pre, arguments) ==
    [op |-> op, p |-> p, status |-> status,
     ret |-> IF status = "returned" THEN ret ELSE "none",
     pre |-> pre, arguments |-> arguments]

Procs == {1, 2}

Opt(device_name, output_file, input_files) ==
    [DefaultOptions EXCEPT !.device_name = device_name,
                           !.output_file = output_file,
                           !.input_files = input_files]

\* the options the model passes to Initialize
OptionChoices ==
    { Opt("pdfwrite", "out.pdf", <<"a.ps">>),
      Opt("pdfwrite", "out.pdf", <<"a.ps", "b.eps">>),
      Opt("pdfwrite", "out.pdf", <<"a.ps", "missing.ps">>),
      Opt("pdfwrite", "nodir/out.pdf", <<"a.ps">>),
      Opt("pdfwrite", "out.pdf", <<>>),
      Opt("pdfwrite", "", <<"a.ps">>),
      Opt("nonexistent_device", "out.pdf", <<"c.pdf">>),
      Opt("nonexistent_device", "out.pdf", <<"a.ps">>),
      [Opt("pdfwrite", "out.pdf", <<"a.ps">>) EXCEPT !.compatibility_level = 13] }

ArgFile(text) == [kind |-> "file", name |-> "", value |-> "", text |-> text]
ArgParam(name, value) == [kind |-> "param", name |-> name, value |-> value, text |-> ""]
ArgC == [kind |-> "c", name |-> "c", value |-> "", text |-> ""]
ArgF == [kind |-> "f", name |-> "f", value |-> "", text |-> ""]

\* the argument lists the model passes to Initialize
ArgumentChoices ==
    { <<ArgFile("pdf_gs"), ArgParam("sDEVICE", "pdfwrite"),
        ArgParam("sOutputFile", "out.pdf"), ArgFile("a.ps")>>,
      <<ArgParam("dBATCH", ""), ArgParam("sDEVICE", "PDFWRITE"),
        ArgParam("sOutputFile", "out.pdf"), ArgC, ArgFile("showpage"), ArgF,
        ArgFile("a.ps"), ArgFile("b.eps")>>,
      <<ArgParam("sDEVICE", "mswinpr2"), ArgParam("dUnknown", "1")>>,
      <<ArgParam("sDEVICE", "bogus"), ArgParam("sOutputFile", "out.pdf")>> }

\* what Initialize does once the options are validated
InitializeComponents(p) ==
    /\ components' = [components EXCEPT ![p] = AllComponents]
    /\ generator' = [generator EXCEPT ![p] = GeneratorInitialize(@, options_'[p])]
    /\ initialized_' = [initialized_ EXCEPT ![p] = TRUE]

\* a call that ends in the chain of SetError calls with result r, the build
\* doing rl at the second lock
Report(op, p, r, rl, pre, arguments) ==
    /\ error_handler' = r.error
    /\ build' = IF error_handler.logging_enabled_
                THEN [build EXCEPT !.relock = rl] ELSE build
    /\ thread' = ThreadAfter(r.status)
    /\ last' = Call(op, p, r.status, "false", pre, arguments)

\* PDFProcessor::Initialize(const ProcessingOptions&)
Initialize(p, options) ==
    /\ thread = "running" /\ ncalls < MaxCalls
    /\ ncalls' = ncalls + 1
    /\ \E rl \in Open(build.relock, RelockOutcomes) :
         LET e == IF initialized_[p]
                  THEN <<ErrorInfo(-10, "Processor already initialized")>>
                  ELSE ValidateOptions(options)
             r == SetErrors(error_handler, rl, e, e)
         IN  /\ options_' = IF initialized_[p] THEN options_
                            ELSE [options_ EXCEPT ![p] = options]
             /\ IF e # <<>>
                THEN /\ Report("Initialize", p, r, rl, initialized_[p], <<options>>)
                     /\ UNCHANGED <<components, generator, initialized_>>
                ELSE /\ InitializeComponents(p)
                     /\ last' = Call("Initialize", p, "returned", "true", FALSE,
                                     <<options>>)
                     /\ UNCHANGED <<error_handler, thread, build>>
    /\ UNCHANGED <<fs, progress_callback_, parser, progress, device>>

\* Initialize(arguments) once ParseArguments has returned a, or has been left
\* at its first SetError (stop)
InitializeParsed(p, arguments, a, stop, rl) ==
    LET stopped == stop /\ a.errors # <<>>
        e == IF stopped THEN a.errors ELSE a.errors \o ValidateOptions(a.options)
        r == SetErrors(error_handler, rl, e, e)
    IN  /\ options_' = [options_ EXCEPT ![p] = a.options]
        /\ IF ~stopped /\ ValidateOptions(a.options) = <<>>
           THEN /\ InitializeComponents(p)
                /\ last' = Call("InitializeArguments", p, "returned", "true", FALSE,
                                arguments)
                /\ IF e # <<>>
                   THEN /\ error_handler' = r.error
                        /\ build' = IF error_handler.logging_enabled_
                                    THEN [build EXCEPT !.relock = rl] ELSE build
                   ELSE UNCHANGED <<error_handler, build>>
                /\ UNCHANGED thread
           ELSE /\ Report("InitializeArguments", p, r, rl, FALSE, arguments)
                /\ UNCHANGED <<components, generator, initialized_>>

\* PDFProcessor::Initialize(const std::vector<std::string>&)
InitializeArguments(p, arguments) ==
    /\ thread = "running" /\ ncalls < MaxCalls
    /\ ncalls' = ncalls + 1
    /\ \E rl \in Open(build.relock, RelockOutcomes) :
         IF initialized_[p]
         THEN /\ Report("InitializeArguments", p,
                        SetErrors(error_handler, rl,
                                  <<ErrorInfo(-10, "Processor already initialized")>>,
                                  <<ErrorInfo(-10, "Processor already initialized")>>),
                        rl, TRUE, arguments)
              /\ UNCHANGED <<options_, components, generator, initialized_>>
         ELSE InitializeParsed(p, arguments,
                  ParseArguments(arguments, options_[p],
                                 error_handler.logging_enabled_ /\ rl # "proceed"),
                  error_handler.logging_enabled_ /\ rl # "proceed", rl)
    /\ UNCHANGED <<fs, progress_callback_, parser, progress, device>>

\* what Process starts from
ProcessStart(p) ==
    [parser |-> parser[p], generator |-> generator[p], fs |-> fs,
     progress |-> <<>>, calls |-> <<>>, thrown |-> <<>>,
     crashed |-> FALSE, shown |-> FALSE]

\* the body of Process up to its return or its failure
ProcessRun(p, ub) ==
    IF ~initialized_[p]
    THEN [ProcessStart(p) EXCEPT !.calls = <<ErrorInfo(-9, "Processor not initialized")>>,
                                !.thrown = <<ErrorInfo(-9, "Processor not initialized")>>]
    ELSE IF options_[p].input_files # <<>>
    THEN ProcessInputFilesFrom(p, ProcessStart(p), 1, ub)
    ELSE ProcessStart(p)

\* how Process ends when its body has led to S
ProcessEnd(p, S, rl, ub) ==
    LET r == SetErrors(error_handler, rl, S.calls, S.thrown)
        reported == ~S.crashed /\ S.calls # <<>>
        status == IF S.crashed THEN "crashed"
                  ELSE IF reported THEN r.status ELSE "returned"
    IN  /\ fs' = S.fs
        /\ parser' = [parser EXCEPT ![p] = S.parser]
        /\ generator' = [generator EXCEPT ![p] = S.generator]
        /\ progress' = S.progress
        /\ error_handler' = IF reported THEN r.error ELSE error_handler
        /\ build' = [relock |-> IF reported /\ error_handler.logging_enabled_
                                THEN rl ELSE build.relock,
                     empty_vector |-> IF S.shown THEN ub ELSE build.empty_vector]
        /\ thread' = ThreadAfter(status)
        /\ last' = Call("Process", p, status,
                        IF S.calls = <<>> THEN "true" ELSE "false",
                        initialized_[p], <<>>)

\* PDFProcessor::Process
Process(p) ==
    /\ thread = "running" /\ ncalls < MaxCalls
    /\ ncalls' = ncalls + 1
    /\ \E rl \in Open(build.relock, RelockOutcomes),
          ub \in Open(build.empty_vector, EmptyVectorOutcomes) :
         ProcessEnd(p, ProcessRun(p, ub), rl, ub)
    /\ UNCHANGED <<initialized_, options_, progress_callback_, components, device>>

\* PDFProcessor::Cleanup
Cleanup(p) ==
    /\ thread = "running" /\ ncalls < MaxCalls
    /\ ncalls' = ncalls + 1
    /\ IF initialized_[p]
       THEN /\ components' = [components EXCEPT ![p] = NoComponents]
            /\ initialized_' = [initialized_ EXCEPT ![p] = FALSE]
       ELSE UNCHANGED <<components, initialized_>>
    /\ last' = Call("Cleanup", p, "returned", "void", initialized_[p], <<>>)
    /\ UNCHANGED <<fs, options_, progress_callback_, parser, generator,
                   error_handler, build, thread, progress, device>>

\* PDFProcessor::SetProgressCallback, with a callback or with nullptr
SetProgressCallback(p, callback) ==
    /\ thread = "running" /\ ncalls < MaxCalls
    /\ ncalls' = ncalls + 1
    /\ progress_callback_' = [progress_callback_ EXCEPT ![p] = callback]
    /\ last' = Call("SetProgressCallback", p, "returned", "void", initialized_[p], <<>>)
    /\ UNCHANGED <<fs, initialized_, options_, components, parser, generator,
                   error_handler, build, thread, progress, device>>

\* ErrorHandler::SetLoggingEnabled
SetLoggingEnabled(enabled) ==
    /\ thread = "running" /\ ncalls < MaxCalls
    /\ ncalls' = ncalls + 1
    /\ error_handler' = [error_handler EXCEPT !.logging_enabled_ = enabled]
    /\ last' = Call("SetLoggingEnabled", 0, "returned", "void", FALSE, <<>>)
    /\ UNCHANGED <<fs, initialized_, options_, progress_callback_, components,
                   parser, generator, build, thread, progress, device>>

----------------------------------------------------------------------------
(* The parser and the generator used on their own *)

L_comment == << <<"%","!","P","S">> >>
L_bbox == << W_BoundingBox, <<"0">>, <<"0">>, <<"1","0","0">>, <<"1","0","0">> >>
L_path == << <<"1","0">>, <<"1","0">>, W_moveto, <<"9","0">>, <<"9","0">>, W_lineto,
             W_stroke >>
L_show == << <<"(","H","i",")">>, W_show >>
L_showpage == << W_showpage >>
L_page == L_path \o L_showpage

\* the lines documents are made of
LineChoices == {L_bbox, L_path, L_show, L_showpage}

\* the documents of at most n lines
RECURSIVE Documents(_)
Documents(n) ==
    IF n = 0 THEN {<<>>}
    ELSE LET shorter == Documents(n - 1)
         IN  shorter \cup {Append(d, l) : d \in shorter, l \in LineChoices}

\* the documents given to a parser that has parsed before
LaterDocuments == {<<>>, <<L_showpage>>, <<L_path, L_show>>}

\* ParseContent has left the parser as P
ParseContentEnd(P, ub, content) ==
    /\ parser' = [parser EXCEPT ![1] = P]
    /\ build' = IF P.shown THEN [build EXCEPT !.empty_vector = ub] ELSE build
    /\ thread' = ThreadAfter(IF P.crashed THEN "crashed" ELSE "returned")
    /\ last' = Call("ParseContent", 1, IF P.crashed THEN "crashed" ELSE "returned",
                    "true", FALSE, content)

\* PostScriptParser::ParseContent on processor 1's parser
ParseContentCall(content) ==
    /\ thread = "running" /\ ncalls < MaxCalls + 1
    /\ ncalls' = ncalls + 1
    /\ \E ub \in Open(build.empty_vector, EmptyVectorOutcomes) :
         ParseContentEnd(ParseContent(parser[1], content, ub), ub, content)
    /\ UNCHANGED <<fs, initialized_, options_, progress_callback_, components,
                   generator, error_handler, progress, device>>

\* CreatePDF has returned c
CreatePDFEnd(c, rl, output_file) ==
    /\ generator' = [generator EXCEPT ![1] = c.generator]
    /\ fs' = c.fs
    /\ IF c.ok
       THEN /\ last' = Call("CreatePDF", 1, "returned", "true", FALSE, <<>>)
            /\ UNCHANGED <<error_handler, thread, build>>
       ELSE Report("CreatePDF", 1,
                   SetErrors(error_handler, rl,
                       <<ErrorInfo(-4, "Cannot create PDF file: " \o output_file)>>,
                       <<ErrorInfo(-4, "Cannot create PDF file: " \o output_file),
                         ErrorInfo(-5, "Error writing PDF file: system_error"),
                         ErrorInfo(-3, "PDF creation error: system_error")>>),
                   rl, FALSE, <<>>)

\* PDFGenerator::CreatePDF on processor 1's generator and parser
CreatePDFCall(output_file) ==
    /\ thread = "running" /\ ncalls < MaxCalls + 1
    /\ generator[1].writes < MaxWrites
    /\ ncalls' = ncalls + 1
    /\ \E rl \in Open(build.relock, RelockOutcomes) :
         CreatePDFEnd(CreatePDF(generator[1], parser[1], output_file, fs), rl,
                      output_file)
    /\ UNCHANGED <<initialized_, options_, progress_callback_, components, parser,
                   progress, device>>

\* PDFGenerator::Initialize on processor 1's generator
GeneratorInitializeCall(level) ==
    /\ thread = "running" /\ ncalls < MaxCalls + 1
    /\ ncalls' = ncalls + 1
    /\ generator' = [generator EXCEPT ![1] =
           GeneratorInitialize(@, [DefaultOptions EXCEPT !.compatibility_level = level])]
    /\ last' = Call("GeneratorInitialize", 1, "returned", "true", FALSE, <<>>)
    /\ UNCHANGED <<fs, initialized_, options_, progress_callback_, components,
                   parser, error_handler, build, thread, progress, device>>

\* PDFGenerator::Clear on processor 1's generator
ClearCall ==
    /\ thread = "running" /\ ncalls < MaxCalls + 1
    /\ ncalls' = ncalls + 1
    /\ generator' = [generator EXCEPT ![1] = GeneratorClear(@)]
    /\ last' = Call("Clear", 1, "returned", "void", FALSE, <<>>)
    /\ UNCHANGED <<fs, initialized_, options_, progress_callback_, components,
                   parser, error_handler, build, thread, progress, device>>

----------------------------------------------------------------------------
(* MSWinPrinterDevice.  A call gives the device as the call leaves it when   *)
(* every SetError it makes returns (device), the device as it is at its      *)
(* first SetError (stopped), the errors it reports and what it returns.      *)

MaxDeviceCalls == 6     \* calls made on the device in one run

\* the device as constructed: win32 tells whether the build has _WIN32,
\* default_printer is what the system names as its default printer
NewDevice(win32, default_printer) ==
    [is_open_ |-> FALSE, is_initialized_ |-> FALSE, job_started_ |-> FALSE,
     page_started_ |-> FALSE, copies_ |-> 1, printer_name_ |-> "",
     printer_dc_ |-> FALSE, win32 |-> win32, default_printer |-> default_printer]

Done(D) == [device |-> D, stopped |-> D, errors |-> <<>>, ret |-> TRUE]

Failed(D, message) ==
    [device |-> D, stopped |-> D, errors |-> <<ErrorInfo(-1, message)>>, ret |-> FALSE]

\* the call that gave first goes on with the call that gives second
AndThen(first, second) ==
    [device |-> second.device,
     stopped |-> IF first.errors # <<>> THEN first.stopped ELSE second.stopped,
     errors |-> first.errors \o second.errors,
     ret |-> second.ret]

\* MSWinPrinterDevice::Initialize
DeviceInitialize(D, options) ==
    IF D.is_initialized_ THEN Failed(D, "Device already initialized")
    ELSE Done([D EXCEPT !.copies_ = options.num_copies,
                        !.printer_name_ = options.printer_name,
                        !.is_initialized_ = TRUE])

\* MSWinPrinterDevice::EndPage; api tells whether the Windows calls succeed
EndPage(D, api) ==
    IF ~D.page_started_ THEN Done(D)
    ELSE IF D.printer_dc_ /\ ~api THEN Failed(D, "Failed to end page")
    ELSE Done([D EXCEPT !.page_started_ = FALSE])

\* MSWinPrinterDevice::EndJob
EndJob(D, api) ==
    IF ~D.job_started_ THEN Done(D)
    ELSE IF D.printer_dc_ /\ ~api THEN Failed(D, "Failed to end print job")
    ELSE Done([D EXCEPT !.job_started_ = FALSE])

\* MSWinPrinterDevice::Close: what EndPage and EndJob return is not looked at
Close(D, api) ==
    IF ~D.is_open_ THEN Done(D)
    ELSE LET page == IF D.page_started_ THEN EndPage(D, api) ELSE Done(D)
             job == IF page.device.job_started_ THEN EndJob(page.device, api)
                    ELSE Done(page.device)
         IN  AndThen(AndThen(page, job),
                     Done([job.device EXCEPT !.printer_dc_ = FALSE, !.is_open_ = FALSE,
                                             !.job_started_ = FALSE,
                                             !.page_started_ = FALSE]))

\* MSWinPrinterDevice::GetDefaultPrinter
GetDefaultPrinter(D) == IF D.win32 THEN D.default_printer ELSE ""

\* Open once the device is closed and its printer_name_ is set
OpenNamed(D, api) ==
    IF D.printer_name_ = "" THEN Failed(D, "No default printer found")
    ELSE IF D.win32 /\ ~api THEN Failed(D, "Failed to open printer: " \o D.printer_name_)
    ELSE Done([D EXCEPT !.is_open_ = TRUE, !.printer_dc_ = D.win32])

\* MSWinPrinterDevice::Open(printer_name)
DeviceOpen(D, printer_name, api) ==
    IF ~D.is_initialized_ THEN Failed(D, "Device not initialized")
    ELSE LET closed == IF D.is_open_ THEN Close(D, api) ELSE Done(D)
             name == IF printer_name # "" THEN printer_name
                     ELSE IF closed.device.printer_name_ # ""
                          THEN closed.device.printer_name_
                     ELSE GetDefaultPrinter(D)
         IN  AndThen(closed, OpenNamed([closed.device EXCEPT !.printer_name_ = name], api))

\* MSWinPrinterDevice::StartJob
StartJob(D, api) ==
    IF ~D.is_open_ THEN Failed(D, "Device not open")
    ELSE IF D.job_started_ THEN Failed(D, "Job already started")
    ELSE IF D.printer_dc_ /\ ~api THEN Failed(D, "Failed to start print job")
    ELSE Done([D EXCEPT !.job_started_ = TRUE])

\* MSWinPrinterDevice::StartPage
StartPage(D, api) ==
    IF ~D.job_started_ THEN Failed(D, "No job started")
    ELSE IF D.page_started_ THEN Failed(D, "Page already started")
    ELSE IF D.printer_dc_ /\ ~api THEN Failed(D, "Failed to start page")
    ELSE Done([D EXCEPT !.page_started_ = TRUE])

\* MSWinPrinterDevice::PrintPage; empty tells whether page_data is empty
PrintPage(D, empty, api) ==
    LET started == IF ~D.page_started_ THEN StartPage(D, api) ELSE Done(D)
    IN  IF ~started.ret THEN started
        ELSE IF empty THEN Failed(started.device, "Empty page data")
        ELSE EndPage(started.device, api)

\* one call on the device that gives r: its SetError calls go through the
\* error handler, rl being what the build does at the second lock
DeviceCall(op, r) ==
    /\ thread = "running" /\ ncalls < MaxDeviceCalls
    /\ ncalls' = ncalls + 1
    /\ IF r.errors = <<>>
       THEN /\ device' = r.device
            /\ last' = Call(op, 0, "returned", IF r.ret THEN "true" ELSE "false",
                            FALSE, <<>>)
            /\ UNCHANGED <<error_handler, thread, build>>
       ELSE \E rl \in Open(build.relock, RelockOutcomes) :
              LET e == SetErrors(error_handler, rl, r.errors, <<r.errors[1]>>)
              IN  /\ device' = IF e.status = "returned" THEN r.device ELSE r.stopped
                  /\ error_handler' = e.error
                  /\ build' = IF error_handler.logging_enabled_
                              THEN [build EXCEPT !.relock = rl] ELSE build
                  /\ thread' = ThreadAfter(e.status)
                  /\ last' = Call(op, 0, e.status, IF r.ret THEN "true" ELSE "false",
                                  FALSE, <<>>)
    /\ UNCHANGED <<fs, initialized_, options_, progress_callback_, components, parser,
                   generator, progress>>

\* the printer settings of the options given to the device
DeviceOptionChoices ==
    [num_copies : {1, 2}, printer_name : {"", "HP LaserJet"}]

----------------------------------------------------------------------------
(* Specifications *)

\* the documents of the input files: a.ps is one page ended by showpage,
\* b.eps two such pages
OnePage == <<L_comment, L_bbox, L_page>>
TwoPages == <<L_comment, L_page, L_page>>

\* the value GetError reads from current_error_.code before any SetError:
\* the constructor leaves it uninitialized
IndeterminateCodes == {0, 12345}

Init ==
    /\ fs = [path \in Paths |->
                CASE path = "a.ps" -> PSFile(OnePage)
                  [] path = "b.eps" -> PSFile(TwoPages)
                  [] path = "c.pdf" -> [kind |-> "other", content |-> <<>>]
                  [] OTHER -> NoFile]
    /\ initialized_ = [p \in Procs |-> FALSE]
    /\ options_ = [p \in Procs |-> DefaultOptions]
    /\ progress_callback_ = [p \in Procs |-> FALSE]
    /\ components = [p \in Procs |-> NoComponents]
    /\ parser = [p \in Procs |-> NewParser]
    /\ generator = [p \in Procs |-> NewGenerator]
    /\ \E code \in IndeterminateCodes :
          error_handler = [code |-> code, message |-> "", logging_enabled_ |-> TRUE]
    /\ build = [relock |-> "unobserved", empty_vector |-> "unobserved"]
    /\ thread = "running"
    /\ last = Call("none", 0, "returned", "void", FALSE, <<>>)
    /\ progress = <<>>
    /\ ncalls = 0
    /\ device = NewDevice(FALSE, "")

Next ==
    \/ \E p \in Procs, options \in OptionChoices : Initialize(p, options)
    \/ \E p \in Procs, arguments \in ArgumentChoices : InitializeArguments(p, arguments)
    \/ \E p \in Procs : Process(p)
    \/ \E p \in Procs : Cleanup(p)
    \/ \E p \in Procs, callback \in BOOLEAN : SetProgressCallback(p, callback)
    \/ \E enabled \in BOOLEAN : SetLoggingEnabled(enabled)

Spec == Init /\ [][Next]_vars

\* the parser and the generator driven directly
NextConv ==
    \/ \E content \in (IF last.op = "none" THEN Documents(MaxLines)
                       ELSE LaterDocuments) : ParseContentCall(content)
    \/ \E output_file \in OutputPaths : CreatePDFCall(output_file)
    \/ \E level \in {14, 17} : GeneratorInitializeCall(level)
    \/ ClearCall

SpecConv == Init /\ [][NextConv]_vars

----------------------------------------------------------------------------
(* One input file of a given content converted by one processor *)

W_BOGUS == <<"B","O","G","U","S">>

DigitChars == <<"0", "1", "2", "3", "4", "5", "6", "7", "8", "9">>

\* the word that writes the natural number n
RECURSIVE NumberWord(_)
NumberWord(n) ==
    IF n < 10 THEN <<DigitChars[n + 1]>>
    ELSE NumberWord(n \div 10) \o <<DigitChars[(n % 10) + 1]>>

\* the coordinates of the documents
Coordinates == {0, 10, 90}

\* x y moveto u v lineto stroke, in the bounding box 0 0 100 100
RoundTrip(x, y, u, v) ==
    <<L_comment, L_bbox,
      <<NumberWord(x), NumberWord(y), W_moveto,
        NumberWord(u), NumberWord(v), W_lineto, W_stroke>> >>

\* the literal strings of the documents, each as the words it is written in:
\* (Hi), (a b), (a(b)c), (a\)b) and (a (b) c)
StringChoices ==
    { << <<"(","H","i",")">> >>,
      << <<"(","a">>, <<"b",")">> >>,
      << <<"(","a","(","b",")","c",")">> >>,
      << <<"(","a","\\",")","b",")">> >>,
      << <<"(","a">>, <<"(","b",")">>, <<"c",")">> >> }

\* x y moveto (string) show
TextAt(x, y, string) ==
    <<L_comment, <<NumberWord(x), NumberWord(y), W_moveto>> \o string \o <<W_show>> >>

\* a closed triangle filled
Triangle ==
    <<L_comment, L_bbox,
      <<NumberWord(0), NumberWord(0), W_moveto, NumberWord(100), NumberWord(0), W_lineto,
        NumberWord(50), NumberWord(86), W_lineto, W_closepath, W_fill, W_showpage>> >>

\* a stroke under red inside gsave / grestore, then a stroke under the gray
\* set before
Isolation ==
    <<L_comment, L_bbox,
      << <<"0",".","5">>, <<"0",".","5">>, <<"0",".","5">>, W_setrgbcolor, W_gsave,
         NumberWord(1), NumberWord(0), NumberWord(0), W_setrgbcolor,
         NumberWord(0), NumberWord(0), W_moveto, NumberWord(10), NumberWord(0), W_lineto,
         W_stroke, W_grestore,
         NumberWord(0), NumberWord(0), W_moveto, NumberWord(20), NumberWord(0), W_lineto,
         W_stroke >> >>

\* an unknown operator between a moveto and a lineto
Malformed ==
    <<L_comment, L_bbox,
      <<NumberWord(10), NumberWord(10), W_moveto, W_BOGUS,
        NumberWord(90), NumberWord(90), W_lineto, W_stroke>> >>

\* comments and nothing else
CommentsOnly == <<L_comment, L_bbox>>

\* a lineto with no moveto before it
LineOnly ==
    <<L_comment, L_bbox, <<NumberWord(90), NumberWord(90), W_lineto, W_stroke>> >>

\* a path dropped by newpath, then a path stroked
Discarded ==
    <<L_comment, L_bbox,
      <<NumberWord(10), NumberWord(10), W_moveto, NumberWord(90), NumberWord(90), W_lineto,
        W_newpath,
        NumberWord(0), NumberWord(0), W_moveto, NumberWord(10), NumberWord(0), W_lineto,
        W_stroke>> >>

\* gsave once more than the graphics-state stack may hold: eight lines of 32
\* and one more
Nested ==
    <<L_comment>> \o [n \in 1..8 |-> [k \in 1..32 |-> W_gsave]] \o << <<W_gsave>> >>

\* a diagonal in a bounding box whose lower-left corner is (100, 100)
OffsetBox ==
    <<L_comment,
      <<W_BoundingBox, NumberWord(100), NumberWord(100), NumberWord(200), NumberWord(200)>>,
      <<NumberWord(100), NumberWord(100), W_moveto,
        NumberWord(200), NumberWord(200), W_lineto, W_stroke>> >>

\* a path left unpainted before showpage, then a path stroked on the next page
OpenBeforeShowpage ==
    <<L_comment, L_bbox,
      <<NumberWord(10), NumberWord(10), W_moveto, NumberWord(90), NumberWord(90), W_lineto,
        W_showpage,
        NumberWord(0), NumberWord(0), W_moveto, NumberWord(10), NumberWord(0), W_lineto,
        W_stroke>> >>

ScenarioDocuments ==
    {RoundTrip(x, y, u, v) : x \in Coordinates, y \in Coordinates,
                             u \in Coordinates, v \in Coordinates}
    \cup {TextAt(10, 10, string) : string \in StringChoices}
    \cup {Triangle, Isolation, Malformed, CommentsOnly, LineOnly, Discarded, Nested,
          OffsetBox, OpenBeforeShowpage}

\* the one conversion the processor is set up for
ConvertOne == Opt("pdfwrite", "out.pdf", <<"a.ps">>)

\* as Init, a.ps holding one of the documents
InitDoc ==
    /\ \E content \in ScenarioDocuments :
          fs = [path \in Paths |->
                   CASE path = "a.ps" -> PSFile(content)
                     [] path = "b.eps" -> PSFile(TwoPages)
                     [] path = "c.pdf" -> [kind |-> "other", content |-> <<>>]
                     [] OTHER -> NoFile]
    /\ initialized_ = [p \in Procs |-> FALSE]
    /\ options_ = [p \in Procs |-> DefaultOptions]
    /\ progress_callback_ = [p \in Procs |-> FALSE]
    /\ components = [p \in Procs |-> NoComponents]
    /\ parser = [p \in Procs |-> NewParser]
    /\ generator = [p \in Procs |-> NewGenerator]
    /\ \E code \in IndeterminateCodes :
          error_handler = [code |-> code, message |-> "", logging_enabled_ |-> TRUE]
    /\ build = [relock |-> "unobserved", empty_vector |-> "unobserved"]
    /\ thread = "running"
    /\ last = Call("none", 0, "returned", "void", FALSE, <<>>)
    /\ progress = <<>>
    /\ ncalls = 0
    /\ device = NewDevice(FALSE, "")

NextDoc ==
    \/ Initialize(1, ConvertOne)
    \/ Process(1)

SpecDoc == InitDoc /\ [][NextDoc]_vars

\* one printer device and its calls
InitDevice ==
    /\ fs = [path \in Paths |-> NoFile]
    /\ initialized_ = [p \in Procs |-> FALSE]
    /\ options_ = [p \in Procs |-> DefaultOptions]
    /\ progress_callback_ = [p \in Procs |-> FALSE]
    /\ components = [p \in Procs |-> NoComponents]
    /\ parser = [p \in Procs |-> NewParser]
    /\ generator = [p \in Procs |-> NewGenerator]
    /\ \E code \in IndeterminateCodes :
          error_handler = [code |-> code, message |-> "", logging_enabled_ |-> TRUE]
    /\ build = [relock |-> "unobserved", empty_vector |-> "unobserved"]
    /\ thread = "running"
    /\ last = Call("none", 0, "returned", "void", FALSE, <<>>)
    /\ progress = <<>>
    /\ ncalls = 0
    /\ \/ device = NewDevice(FALSE, "")
       \/ \E default_printer \in {"", "Office"} : device = NewDevice(TRUE, default_printer)

NextDevice ==
    \/ \E options \in DeviceOptionChoices :
           DeviceCall("Initialize", DeviceInitialize(device, options))
    \/ \E printer_name \in {"", "HP LaserJet"}, api \in BOOLEAN :
           DeviceCall("Open", DeviceOpen(device, printer_name, api))
    \/ \E api \in BOOLEAN : DeviceCall("StartJob", StartJob(device, api))
    \/ \E api \in BOOLEAN : DeviceCall("StartPage", StartPage(device, api))
    \/ \E empty \in BOOLEAN, api \in BOOLEAN :
           DeviceCall("PrintPage", PrintPage(device, empty, api))
    \/ \E api \in BOOLEAN : DeviceCall("EndPage", EndPage(device, api))
    \/ \E api \in BOOLEAN : DeviceCall("EndJob", EndJob(device, api))
    \/ \E api \in BOOLEAN : DeviceCall("Close", Close(device, api))

SpecDevice == InitDevice /\ [][NextDevice]_vars

----------------------------------------------------------------------------
(* Reading a written file, as a PDF reader does.  These operators take the  *)
(* chunks of a file and know nothing of the generator's state.              *)

IsPDF(path) == fs[path].kind = "pdf"

\* the number of indirect objects of the file
ObjectCount(file) == Cardinality({i \in DOMAIN file : file[i] = "endobj\n\n"})

\* the line that opens object k
ObjectLine(k) == IntStr(k) \o " 0 obj\n"

IsObjectLine(file, i) == \E k \in 1..ObjectCount(file) : file[i] = ObjectLine(k)

\* the object number on the object line at position i
ObjectNumberAt(file, i) == CHOOSE k \in 1..ObjectCount(file) : file[i] = ObjectLine(k)

\* the position of the object line of the object that chunk i lies in
RECURSIVE ObjectLineBefore(_, _)
ObjectLineBefore(file, i) ==
    IF IsObjectLine(file, i) THEN i ELSE ObjectLineBefore(file, i - 1)

\* the number of the object that chunk i lies in
Owner(file, i) == ObjectNumberAt(file, ObjectLineBefore(file, i))

\* the first position after i that holds chunk
NextChunk(file, i, chunk) ==
    CHOOSE j \in (i + 1)..Len(file) :
        file[j] = chunk /\ \A m \in (i + 1)..(j - 1) : file[m] # chunk

\* a set of positions in increasing order
RECURSIVE Ascending(_)
Ascending(positions) ==
    IF positions = {} THEN <<>>
    ELSE LET least == CHOOSE i \in positions : \A j \in positions : i <= j
         IN  <<least>> \o Ascending(positions \ {least})

\* the byte offsets at which the chunks begin, the first of them at base
RECURSIVE Offsets(_, _)
OffsetsOfHalves(first, second, base) ==
    Offsets(first, base) \o Offsets(second, base + Bytes(first))

Offsets(chunks, base) ==
    IF Len(chunks) <= 1 THEN [i \in DOMAIN chunks |-> base]
    ELSE OffsetsOfHalves(SubSeq(chunks, 1, Len(chunks) \div 2),
                         SubSeq(chunks, Len(chunks) \div 2 + 1, Len(chunks)),
                         base)

\* the object numbers of the Page objects, in file order
PageObjectNumbers(file) ==
    LET positions == Ascending({i \in DOMAIN file : file[i] = "/Type /Page\n"})
    IN  [n \in DOMAIN positions |-> Owner(file, positions[n])]

\* the object the trailer's /Root names
RootNumber(file) ==
    CHOOSE k \in 1..ObjectCount(file) :
        \E i \in DOMAIN file : file[i] = "/Root " \o IntStr(k) \o " 0 R\n"

\* the object the catalog's /Pages names
PagesNumber(file) ==
    CHOOSE k \in 1..ObjectCount(file) :
        \E i \in DOMAIN file : /\ file[i] = "/Pages " \o IntStr(k) \o " 0 R\n"
                               /\ Owner(file, i) = RootNumber(file)

\* the /Count of the Pages object
PagesCount(file) ==
    CHOOSE n \in 0..ObjectCount(file) :
        \E i \in DOMAIN file : /\ file[i] = "/Count " \o IntStr(n) \o "\n"
                               /\ Owner(file, i) = PagesNumber(file)

\* the references between the brackets of the Pages object's /Kids
Kids(file) ==
    LET open == CHOOSE i \in DOMAIN file :
                    file[i] = "/Kids [" /\ Owner(file, i) = PagesNumber(file)
    IN  SubSeq(file, open + 1, NextChunk(file, open, "]\n") - 1)

\* the position of the xref keyword
XrefKeyword(file) == NextChunk(file, 0, "xref\n")

\* the xref line of object k: line k + 1 of the table, after the xref keyword
\* at position xref and the subsection header
XrefLine(file, xref, k) == file[xref + 2 + k]

\* an xref entry for an object in use at offset
XrefEntry(offset) == ZeroPad(IntStr(offset), 10) \o " 00000 n \n"

----------------------------------------------------------------------------
(* Claims *)

\* C1: in every written PDF the /Kids array of the Pages tree holds exactly
\* as many references as there are Page objects, and its i-th reference
\* names the i-th Page object.
C1_KidsNamePageObjects ==
    \A path \in Paths :
        IsPDF(path) =>
            LET file == fs[path].content
                pages == PageObjectNumbers(file)
                kids == Kids(file)
            IN  /\ Len(kids) = Len(pages)
                /\ \A i \in DOMAIN kids : kids[i] = IntStr(pages[i]) \o " 0 R "

\* the pages the parser makes of file input_file, taken alone
PagesOfInput(input_file) ==
    GetPageCount(ParseContent(NewParser, fs[input_file].content, "stored"))

RECURSIVE SumPages(_)
SumPages(input_files) ==
    IF input_files = <<>> THEN 0
    ELSE PagesOfInput(Head(input_files)) + SumPages(Tail(input_files))

\* C2: when Process has returned true for several PostScript inputs, the one
\* output document holds the pages of all of them: its page count is the
\* sum of the inputs' page counts.
C2_PagesConcatenated ==
    (/\ last.op = "Process" /\ last.ret = "true"
     /\ Len(options_[last.p].input_files) >= 2
     /\ \A i \in DOMAIN options_[last.p].input_files :
            fs[options_[last.p].input_files[i]].kind = "ps")
    => /\ IsPDF(options_[last.p].output_file)
       /\ PagesCount(fs[options_[last.p].output_file].content)
              = SumPages(options_[last.p].input_files)

\* the page-boundary rule on the tokens of a document: closed counts the
\* pages closed by showpage, items says that the current page has received
\* a painted path or a text
RECURSIVE PageBoundaryRule(_, _, _)
PageBoundaryRule(tokens, closed, items) ==
    IF tokens = <<>> THEN IF closed = 0 \/ items THEN closed + 1 ELSE closed
    ELSE IF Head(tokens) = W_showpage
    THEN PageBoundaryRule(Tail(tokens), closed + 1, FALSE)
    ELSE PageBoundaryRule(Tail(tokens), closed,
                          items \/ Head(tokens) \in {W_stroke, W_fill, W_show})

\* the tokens of the lines of a document that are not comments
RECURSIVE TokensOf(_)
TokensOf(content) ==
    IF content = <<>> THEN <<>>
    ELSE (IF Head(content)[1][1] = "%" THEN <<>> ELSE Head(content))
         \o TokensOf(Tail(content))

\* C3: the number of pages of a parsed document follows the page-boundary
\* rule: one page per showpage, and a last page without showpage only if it
\* received items (a document of one showpage has one page).
C3_PageBoundaryRule ==
    (last.op = "ParseContent" /\ last.status = "returned")
    => GetPageCount(parser[1]) = PageBoundaryRule(TokensOf(last.arguments), 0, FALSE)

\* C4: a Process call that returns false leaves nothing it wrote in the
\* files: they are as they were before the call.
C4_PartialOutputDiscarded ==
    [][(last'.op = "Process" /\ last'.ret = "false" /\ ncalls' # ncalls)
       => fs' = fs]_vars

\* the xref line of object k holds the offset of the chunk that is line
XrefNamesObject(file, offsets, xref, k, line) ==
    /\ \E i \in DOMAIN file : file[i] = line
    /\ \A i \in DOMAIN file :
           file[i] = line => XrefLine(file, xref, k) = XrefEntry(offsets[i])

\* the xref table of the file names every object of the file
XrefNamesObjects(file, offsets, xref) ==
    \A k \in 1..ObjectCount(file) :
        XrefNamesObject(file, offsets, xref, k, ObjectLine(k))

\* C5: in every written file, for every indirect object k, line k + 1 of the
\* cross-reference table holds the byte offset at which the line "k 0 obj"
\* begins.
C5_XrefOffsets ==
    \A path \in Paths :
        IsPDF(path) =>
            XrefNamesObjects(fs[path].content, Offsets(fs[path].content, 0),
                             XrefKeyword(fs[path].content))

\* a second write by one generator, with the objects of both writes in the file
C5_Witness ==
    /\ last.op = "CreatePDF" /\ last.ret = "true"
    /\ generator[1].writes = 2
    /\ IsPDF("out.pdf") /\ ObjectCount(fs["out.pdf"].content) >= 12
    /\ C5_XrefOffsets

\* an argument list that names the pdfwrite device, an output file and an
\* input file
NamesConversion(arguments) ==
    /\ \E i \in DOMAIN arguments :
           /\ arguments[i].kind = "param" /\ arguments[i].name = "sDEVICE"
           /\ arguments[i].value = "pdfwrite"
    /\ \E i \in DOMAIN arguments :
           /\ arguments[i].kind = "param" /\ arguments[i].name = "sOutputFile"
           /\ arguments[i].value # ""
    /\ \E i \in DOMAIN arguments :
           arguments[i].kind = "file" /\ arguments[i].text \in InputPaths

\* C6: Initialize(arguments) on a processor that is not initialized, with
\* arguments that name the pdfwrite device, an output file and an input
\* file, returns true and leaves the processor initialized.
C6_ArgumentsInitialize ==
    (last.op = "InitializeArguments" /\ ~last.pre /\ NamesConversion(last.arguments))
    => /\ last.status = "returned" /\ last.ret = "true"
       /\ initialized_[last.p]

\* C7: Initialize on an initialized processor returns false and leaves it
\* initialized; after Cleanup the processor is not initialized; Initialize
\* with valid options on a processor that is not initialized returns true
\* and makes it initialized.
C7_InitializeLifecycle ==
    /\ (last.op \in {"Initialize", "InitializeArguments"} /\ last.pre)
       => /\ last.status = "returned" /\ last.ret = "false"
          /\ initialized_[last.p]
    /\ last.op = "Cleanup" => ~initialized_[last.p]
    /\ (last.op = "Initialize" /\ ~last.pre /\ ValidateOptions(last.arguments[1]) = <<>>)
       => /\ last.status = "returned" /\ last.ret = "true"
          /\ initialized_[last.p]

\* options of the pdfwrite device that lack the output file or the input files
MissingRequired(options) ==
    /\ options.device_name = "pdfwrite"
    /\ options.output_file = "" \/ options.input_files = <<>>

\* C8: when Initialize fails because the output file or the input files are
\* missing, it returns false, the processor is not initialized, and
\* GetLastError has a non-zero code and a non-empty message.
C8_MissingOptionReported ==
    (last.op = "Initialize" /\ ~last.pre /\ MissingRequired(last.arguments[1]))
    => /\ last.status = "returned" /\ last.ret = "false"
       /\ ~initialized_[last.p]
       /\ GetLastError(last.p).code # 0
       /\ GetLastError(last.p).message # ""

\* C9: no operation on one processor changes what GetLastError or
\* GetLastErrorString of another processor returns.
C9_ErrorsPerProcessor ==
    [][\A q \in Procs :
          (ncalls' # ncalls /\ last'.p \in Procs \ {q})
          => /\ GetLastError(q)' = GetLastError(q)
             /\ GetLastErrorString(q)' = GetLastErrorString(q)]_vars

\* the positions of the stream keywords of the file
StreamPositions(file) == {i \in DOMAIN file : file[i] = "stream\n"}

\* the chunks between "stream\n" at position i and the next "\nendstream"
StreamBody(file, i) == SubSeq(file, i + 1, NextChunk(file, i, "\nendstream\n") - 1)

\* C10: for every content stream of every written file, the /Length entry
\* of its dictionary is the number of bytes between "stream\n" and
\* "\nendstream".
C10_StreamLength ==
    \A path \in Paths :
        IsPDF(path) =>
            LET file == fs[path].content
            IN  \A i \in StreamPositions(file) :
                    \E j \in ObjectLineBefore(file, i)..i :
                        file[j] = "/Length " \o IntStr(Bytes(StreamBody(file, i))) \o "\n"

\* a written file of several pages whose streams hold a path and a text
C10_Witness ==
    /\ IsPDF("out.pdf")
    /\ Cardinality(StreamPositions(fs["out.pdf"].content)) >= 2
    /\ \E i \in DOMAIN fs["out.pdf"].content : fs["out.pdf"].content[i] = "(Hi) Tj\n"
    /\ \E i \in DOMAIN fs["out.pdf"].content : fs["out.pdf"].content[i] = "S\n"
    /\ C10_StreamLength

----------------------------------------------------------------------------
(* Claims about the content of one converted document (SpecDoc) *)

\* processor 1 has converted a.ps, holding content, to out.pdf
Converted(content) ==
    /\ last.op = "Process" /\ last.ret = "true"
    /\ fs["a.ps"].content = content
    /\ IsPDF("out.pdf")

\* the content stream of the first page of the file
FirstStream(file) ==
    StreamBody(file, CHOOSE i \in StreamPositions(file) :
                         \A j \in StreamPositions(file) : i <= j)

Chunks(stream) == {stream[i] : i \in DOMAIN stream}

\* the coordinate mapper of the specification for the bounding box and the
\* paper: scale = min(W/ps_w, H/ps_h), centering offsets, y flipped
CoordinateMapper(bbox, paper, xs, ys) ==
    LET ps_w == bbox.x2 - bbox.x1
        ps_h == bbox.y2 - bbox.y1
        scale == Min(DivScale(paper.W, ps_w), DivScale(paper.H, ps_h))
        ox == (paper.W - MulScale(ps_w, scale)) \div 2 - MulScale(bbox.x1, scale)
        oy == (paper.H - MulScale(ps_h, scale)) \div 2 - MulScale(bbox.y1, scale)
    IN  <<MulScale(xs, scale) + ox, paper.H - (MulScale(ys, scale) + oy)>>

\* A4 paper and the bounding box 0 0 100 100
A4 == [W |-> 595276, H |-> 841890]
Box100 == [x1 |-> 0, y1 |-> 0, x2 |-> 100 * Unit, y2 |-> 100 * Unit]

\* the operands a stream may write for the value v: a number within one unit
\* of the fixed-point resolution of v (the model cannot tell errors below
\* that), with two decimals or in the shortest form
Written(v) ==
    {Fixed2(w) : w \in {w \in (v - 1)..(v + 1) : w % 10 = 0}}
    \cup {General(w) : w \in (v - 1)..(v + 1)}

\* the stream holds the operator op at the point xy
HoldsOperator(stream, xy, op) ==
    \E a \in Written(xy[1]), b \in Written(xy[2]) :
        (a \o " " \o b \o " " \o op \o "\n") \in Chunks(stream)

\* C11: for x y moveto u v lineto stroke in the bounding box 0 0 100 100 on
\* A4 paper, the content stream holds an m operator at CoordinateMapper(x, y)
\* and an l operator at CoordinateMapper(u, v).
C11_PathCoordinates ==
    \A x \in Coordinates, y \in Coordinates, u \in Coordinates, v \in Coordinates :
        Converted(RoundTrip(x, y, u, v)) =>
            /\ HoldsOperator(FirstStream(fs["out.pdf"].content),
                             CoordinateMapper(Box100, A4, x * Unit, y * Unit), "m")
            /\ HoldsOperator(FirstStream(fs["out.pdf"].content),
                             CoordinateMapper(Box100, A4, u * Unit, v * Unit), "l")

\* the text elements and the path under construction that the parser of
\* processor 1 holds after the conversion
StoredText == parser[1].pages_[1].text_elements
OpenPath == parser[1].current_path_

\* C12: after x y moveto (string) show, the text element recorded by show
\* lies at the point the moveto stored for its m operand: the transform has
\* been applied to (x, y) once.
C12_TextAtCurrentPoint ==
    \A string \in StringChoices :
        (Converted(TextAt(10, 10, string)) /\ StoredText # <<>>) =>
            /\ OpenPath[1].type = "MOVE_TO"
            /\ <<StoredText[1].x, StoredText[1].y>> = OpenPath[1].points

\* the characters of a literal string written in the given words, one blank
\* between two words, without the outer parentheses
RECURSIVE Joined(_)
Joined(words) ==
    IF Len(words) = 1 THEN words[1] ELSE words[1] \o <<" ">> \o Joined(Tail(words))

Literal(string) == SubSeq(Joined(string), 2, Len(Joined(string)) - 1)

\* the character sequences that give s when the escaping of backslash and
\* parentheses is reversed: a backslash of s is written escaped, a
\* parenthesis escaped or bare
RECURSIVE Escapings(_)
Escapings(s) ==
    IF s = <<>> THEN {<<>>}
    ELSE LET heads == IF Head(s) = "\\" THEN {<<"\\", "\\">>}
                      ELSE IF Head(s) \in {"(", ")"} THEN {<<"\\", Head(s)>>, <<Head(s)>>}
                      ELSE {<<Head(s)>>}
         IN  {h \o t : h \in heads, t \in Escapings(Tail(s))}

\* C13: for every literal string s shown, the content stream holds a Tj operand
\* whose bytes between the parentheses, the escaping of backslash and
\* parentheses reversed, are s.
C13_StringEscapeLaw ==
    \A string \in StringChoices :
        Converted(TextAt(10, 10, string)) =>
            \E e \in Escapings(Literal(string)) :
                ("(" \o Flatten(e) \o ") Tj\n") \in Chunks(FirstStream(fs["out.pdf"].content))

\* the stream holds the chunk second right after the chunk first
Follows(stream, first, second) ==
    \E i \in 1..(Len(stream) - 1) : stream[i] = first /\ stream[i + 1] = second

\* C14: the path closed and committed by fill ends in the content stream with
\* h followed by f, and the path committed by stroke ends with S.
C14_PaintOperatorPreserved ==
    /\ Converted(Triangle) => Follows(FirstStream(fs["out.pdf"].content), "h\n", "f\n")
    /\ \A x \in Coordinates, y \in Coordinates, u \in Coordinates, v \in Coordinates :
           Converted(RoundTrip(x, y, u, v)) =>
               Follows(FirstStream(fs["out.pdf"].content), "S\n", "Q\n")

\* the operators that construct or paint a path or show text
PaintingChunks == {"h\n", "S\n", "f\n", "BT\n", "ET\n"}

\* C15: a document of comments only gives one page whose content stream holds
\* no path-construction, paint or text operator between q and Q.
C15_CommentsOnlyEmptyStream ==
    Converted(CommentsOnly) =>
        /\ Cardinality(StreamPositions(fs["out.pdf"].content)) = 1
        /\ FirstStream(fs["out.pdf"].content)[1] = "q\n"
        /\ Chunks(FirstStream(fs["out.pdf"].content)) \cap PaintingChunks = {}

\* the operands the generator writes for the point (xs, ys) of the document
\* under the transform the parser of processor 1 has set up
Emitted(xs, ys, op) ==
    LET xy == TransformCoordinates(parser[1], xs * Unit, ys * Unit)
    IN  Fixed2(xy[1]) \o " " \o Fixed2(xy[2]) \o " " \o op \o "\n"

\* C16: for 10 10 moveto BOGUS 90 90 lineto stroke the conversion, made by an
\* initialized processor whose Process call returns, succeeds:
\* a warning names the token BOGUS, and the content stream holds the m and
\* the l operator of the points around it.
C16_UnknownOperatorWarned ==
    (initialized_[1] /\ last.op = "Process" /\ last.status = "returned"
        /\ fs["a.ps"].content = Malformed) =>
        /\ last.ret = "true" /\ IsPDF("out.pdf")
        /\ \E k \in DOMAIN parser[1].warnings : parser[1].warnings[k] = W_BOGUS
        /\ Emitted(10, 10, "m") \in Chunks(FirstStream(fs["out.pdf"].content))
        /\ Emitted(90, 90, "l") \in Chunks(FirstStream(fs["out.pdf"].content))

\* the same without the warning: what the conversion of the document does do
C16_OperatorsKept ==
    (initialized_[1] /\ last.op = "Process" /\ last.status = "returned"
        /\ fs["a.ps"].content = Malformed) =>
        /\ last.ret = "true" /\ IsPDF("out.pdf")
        /\ Emitted(10, 10, "m") \in Chunks(FirstStream(fs["out.pdf"].content))
        /\ Emitted(90, 90, "l") \in Chunks(FirstStream(fs["out.pdf"].content))

\* the chunks that set the stroke colour to one of the given components
StrokeColorChunks(rs, gs, bs) ==
    {r \o " " \o g \o " " \o b \o " RG\n" :
        r \in UNION {Written(v) : v \in rs}, g \in UNION {Written(v) : v \in gs},
        b \in UNION {Written(v) : v \in bs}}

Red == StrokeColorChunks({Unit}, {0}, {0})
Gray == StrokeColorChunks({Unit \div 2}, {Unit \div 2}, {Unit \div 2})
AnyColor == StrokeColorChunks({0, Unit \div 2, Unit}, {0, Unit \div 2, Unit},
                              {0, Unit \div 2, Unit})

\* the stroke colour in effect before chunk i of the stream and the colours
\* saved by q: RG sets the colour, q saves it, Q gives the saved colour back
RECURSIVE StrokeColor(_, _)
StrokeColor(stream, i) ==
    IF i = 1 THEN [color |-> "black", saved |-> <<>>]
    ELSE LET before == StrokeColor(stream, i - 1)
             chunk == stream[i - 1]
         IN  IF chunk = "q\n" THEN [before EXCEPT !.saved = Append(@, before.color)]
             ELSE IF chunk = "Q\n" /\ before.saved # <<>>
                  THEN [color |-> before.saved[Len(before.saved)],
                        saved |-> SubSeq(before.saved, 1, Len(before.saved) - 1)]
             ELSE IF chunk \in Red THEN [before EXCEPT !.color = "red"]
             ELSE IF chunk \in Gray THEN [before EXCEPT !.color = "gray"]
             ELSE IF chunk \in AnyColor THEN [before EXCEPT !.color = "other"]
             ELSE before

\* C17: for gray set, then a path stroked under red between gsave and
\* grestore, then a path stroked after grestore, the content stream strokes
\* a path while the stroke colour is red and a later one while it is gray.
C17_ColorIsolation ==
    Converted(Isolation) =>
        LET stream == FirstStream(fs["out.pdf"].content)
        IN  \E i \in DOMAIN stream : \E j \in DOMAIN stream :
                /\ i < j /\ stream[i] = "S\n" /\ stream[j] = "S\n"
                /\ StrokeColor(stream, i).color = "red"
                /\ StrokeColor(stream, j).color = "gray"

\* the paths of the pages the parser of processor 1 holds
StoredPaths == [n \in DOMAIN parser[1].pages_ |-> parser[1].pages_[n].paths]

\* C23: on every page the parser holds after a conversion, a LINE_TO or
\* CURVE_TO has a MOVE_TO somewhere before it: a lineto that begins a path is
\* stored as a MOVE_TO.
C23_PathBeginsWithMoveTo ==
    (initialized_[1] /\ last.op = "Process" /\ last.ret = "true") =>
        \A n \in DOMAIN StoredPaths :
            \A i \in DOMAIN StoredPaths[n] :
                StoredPaths[n][i].type \in {"LINE_TO", "CURVE_TO"} =>
                    \E j \in 1..(i - 1) : StoredPaths[n][j].type = "MOVE_TO"

\* C24: after 10 10 moveto 90 90 lineto newpath 0 0 moveto 10 0 lineto stroke
\* the page holds the two elements of the second path only.
C24_NewpathDiscards ==
    (initialized_[1] /\ last.op = "Process" /\ last.ret = "true"
        /\ fs["a.ps"].content = Discarded) =>
        /\ Len(StoredPaths[1]) = 2
        /\ StoredPaths[1][1].points = TransformCoordinates(parser[1], 0, 0)
        /\ StoredPaths[1][2].points = TransformCoordinates(parser[1], 10 * Unit, 0)

\* C26: the graphics-state stack of the parser never holds more than 256
\* saved states, and a conversion in which a gsave meets the full stack does
\* not succeed.
C26_StackBound ==
    /\ Len(parser[1].state_stack_) <= 256
    /\ (initialized_[1] /\ last.op = "Process" /\ fs["a.ps"].content = Nested)
       => last.ret # "true"

\* the lower-left corner of the bounding box of P lies where a box of the
\* scaled size is centred on a page of width W and the height of P's
\* transform: at x = (W - sw)/2 and, y flipped, at H - (H - sh)/2
CornerCentred(P, W) ==
    LET corner == TransformCoordinates(P, P.bbox.x1, P.bbox.y1)
        sw == MulScale(P.bbox.x2 - P.bbox.x1, P.transform.scale)
        sh == MulScale(P.bbox.y2 - P.bbox.y1, P.transform.scale)
        H == P.transform.pdf_height
    IN  /\ Abs(corner[1] - (W - sw) \div 2) <= 1
        /\ Abs(corner[2] - (H - (H - sh) \div 2)) <= 1

\* C27: after a conversion the transform of the parser maps the lower-left
\* corner of the bounding box to the corner of the centred scaled box, for
\* the page width the parser scales to or the A4 width.
C27_BoxCentred ==
    (initialized_[1] /\ last.op = "Process" /\ last.ret = "true") =>
        \/ CornerCentred(parser[1], 595 * Unit)
        \/ CornerCentred(parser[1], A4.W)

\* the same for the documents whose bounding box begins at the origin
C27_OriginBoxCentred ==
    (initialized_[1] /\ last.op = "Process" /\ last.ret = "true"
        /\ parser[1].bbox.x1 = 0 /\ parser[1].bbox.y1 = 0) =>
        CornerCentred(parser[1], 595 * Unit)

\* the interpreter state a ParseContent of the parser P begins its lines
\* with: what the parser holds after the document without lines
StartOfParse(P) == ParseContent(P, <<>>, "stored")

\* C30: whatever the parser of processor 1 has parsed, its next ParseContent
\* begins with the default graphics state, no saved state and no path; and
\* of a path left unpainted before showpage nothing comes to the next page.
C30_NoLeakAcrossBoundaries ==
    /\ StartOfParse(parser[1]).current_state_ = DefaultGraphicsState
    /\ StartOfParse(parser[1]).state_stack_ = <<>>
    /\ StartOfParse(parser[1]).current_path_ = <<>>
    /\ Converted(OpenBeforeShowpage) =>
           (Len(StoredPaths) = 2 /\ StoredPaths[1] = <<>> /\ Len(StoredPaths[2]) = 2)

\* the bounding box a document declares: the one of its %%BoundingBox
\* comment, read by a parser that has read nothing before, else the A4 box
DeclaredBox(content) == ParseDSCComments(NewParser, content).bbox

\* C25: after every ParseContent the parser's bounding box is the one the
\* document just parsed declares, whatever the parser has parsed before.
C25_BoundingBoxPerDocument ==
    (last.op = "ParseContent" /\ last.status = "returned") =>
        parser[1].bbox = DeclaredBox(last.arguments)

----------------------------------------------------------------------------
(* Claims about the calls of the processor (Spec) *)

\* the calls the progress callback got for input file k during the last Process
CallsFor(k) == {i \in DOMAIN progress : progress[i][1] = k}

\* C18: during a Process call that succeeds, a processor with a progress
\* callback calls it twice for each input file, at its begin and at its end,
\* and once more when the serializer starts.
C18_ProgressCalls ==
    \A p \in Procs :
        (last.op = "Process" /\ last.p = p /\ last.ret = "true" /\ progress_callback_[p]) =>
            /\ \A k \in DOMAIN options_[p].input_files : Cardinality(CallsFor(k)) = 2
            /\ Len(progress) = 2 * Len(options_[p].input_files) + 1

\* options that name input files and an output file but a device that is
\* none of the devices of the library (pdfwrite, mswinpr2)
UnknownDevice(options) ==
    /\ options.device_name \notin {"pdfwrite", "mswinpr2"}
    /\ options.input_files # <<>>
    /\ options.output_file # ""

\* C19: Initialize does not accept options that name an unknown device, and
\* a Process call of a processor that holds such options parses no input and
\* writes no file.
C19_UnknownDeviceRejected ==
    [][\A p \in Procs :
          (ncalls' # ncalls /\ last'.p = p) =>
              /\ (last'.op = "Initialize" /\ ~last'.pre
                    /\ UnknownDevice(last'.arguments[1]))
                 => (last'.ret # "true" /\ ~initialized_'[p])
              /\ (last'.op = "Process" /\ UnknownDevice(options_[p]))
                 => (fs' = fs /\ parser'[p] = parser[p])]_vars

\* the header lines of the PDF versions 1.4 to 1.7, by the minor digit
VersionHeader == [minor \in 4..7 |-> "%PDF-1." \o DigitChars[minor + 1] \o "\n"]

\* the last call is a Process of p that has converted PostScript files only
\* and returned true: the output file of p is the one it has just written
Wrote(p) ==
    /\ last.op = "Process" /\ last.p = p /\ last.ret = "true"
    /\ options_[p].input_files # <<>> /\ options_[p].output_file \in Paths
    /\ \A k \in DOMAIN options_[p].input_files :
           Extension(options_[p].input_files[k]) \in {"ps", "eps"}
    /\ IsPDF(options_[p].output_file)

\* C20: the file a processor has written begins with %PDF-1. and one digit of
\* 4..7, the minor digit of the compatibility_level of its options (held in
\* tenths), whatever level Initialize has accepted.
C20_HeaderVersion ==
    \A p \in Procs :
        Wrote(p) =>
            /\ options_[p].compatibility_level - 10 \in 4..7
            /\ fs[options_[p].output_file].content[1]
                   = VersionHeader[options_[p].compatibility_level - 10]

\* the same for the levels 1.4 to 1.7 only
C20_HeaderMatchesLevel ==
    \A p \in Procs :
        (Wrote(p) /\ options_[p].compatibility_level - 10 \in 4..7) =>
            fs[options_[p].output_file].content[1]
                = VersionHeader[options_[p].compatibility_level - 10]

\* C21: with logging enabled, an Initialize or Process call of the one calling
\* thread that reports an error returns (with false): it neither waits on the
\* handler's mutex forever nor leaves by an exception out of SetError.
C21_SetErrorReturns ==
    (last.op \in {"Initialize", "InitializeArguments", "Process"}
        /\ error_handler.logging_enabled_ /\ last.status # "crashed")
    => (last.status = "returned" /\ thread = "running")

----------------------------------------------------------------------------
(* Claims about the parser and the generator driven directly (SpecConv) *)

\* the file describes a document of n pages and nothing else: 2n + 3 objects,
\* and the Pages object reached from the trailer's /Root counts and lists n
DescribesPages(file, n) ==
    /\ ObjectCount(file) = 2 * n + 3
    /\ PagesCount(file) = n
    /\ Len(Kids(file)) = n

\* C22: every file a CreatePDF call writes describes the pages the parser
\* holds at that call, however many CreatePDF calls the generator has served
\* since it was initialized.
C22_OnlyCurrentDocument ==
    [][(ncalls' # ncalls /\ last'.op = "CreatePDF" /\ last'.ret = "true") =>
          \A path \in OutputPaths :
              fs'[path] # fs[path] =>
                  DescribesPages(fs'[path].content, GetPageCount(parser[1]))]_vars

\* PDFProcessor::GetOptions of processor p
GetOptions(p) == options_[p]

\* C28: an Initialize call, with options or with arguments, that returns
\* false leaves what GetOptions returns as it was before the call.
C28_FailedInitializeKeepsOptions ==
    [][\A p \in Procs :
          (ncalls' # ncalls /\ last'.p = p
              /\ last'.op \in {"Initialize", "InitializeArguments"}
              /\ last'.status = "returned" /\ last'.ret = "false")
          => GetOptions(p)' = GetOptions(p)]_vars

----------------------------------------------------------------------------
(* Claims about the printer device (SpecDevice) *)

\* C29: whatever calls the device has served, a started page lies in a
\* started job, a started job in an open device and an open device is
\* initialized.
C29_DeviceLifecycle ==
    /\ device.page_started_ => device.job_started_
    /\ device.job_started_ => device.is_open_
    /\ device.is_open_ => device.is_initialized_

\* the same without the page: the part EndJob does not break
C29_JobLifecycle ==
    /\ device.job_started_ => device.is_open_
    /\ device.is_open_ => device.is_initialized_

====
